---- MODULE Spec2Model ----
(***************************************************************************)
(* Contact Graph Scheduling and Routing simulation (bprobert97/simulation). *)
(* State machine of the Node class (node.py), its task table, buffer,      *)
(* outbound queues and contact plan, with the routing helpers of           *)
(* routing.py and the bundle ordering of bundles.py.                       *)
(***************************************************************************)
EXTENDS Integers, Sequences, FiniteSets, TLC

VARIABLES
    task_table,          \* Node.task_table: node -> sequence of tasks (dict order)
    task_table_updates,  \* Node._task_table_updates: node -> neighbour -> list of task uids
    ev,                  \* the handler that ran last and what it observed
    cfg,                 \* what the run was set up with: contact plans, tasks, msr, capacity
    now,                 \* env.now
    queue,               \* the event queue of the simpy environment
    node,                \* node -> buffer, outbound queues, contact plan, mav, route table
    bundles,             \* the Bundle objects created so far, by identity
    ledger,              \* node -> the enqueues not yet returned to the buffer
    crashed              \* an exception left a handler: the run has stopped

vars == <<task_table, task_table_updates, ev, cfg, now, queue, node, bundles,
          ledger, crashed>>
simVars == <<cfg, now, queue, node, bundles, ledger, crashed>>

\* ---------------------------------------------------------------------------
\* Bounds
\* ---------------------------------------------------------------------------
MaxTaskId == 2

Nodes == {0, 1, 2}
TaskIds == 1..MaxTaskId
Statuses == {"pending", "acquired", "redundant", "rescheduled", "delivered", "failed"}

Neighbours(n) == Nodes \ {n}

NoEvent == [kind |-> "none"]

\* ---------------------------------------------------------------------------
\* Sequence helpers
\* ---------------------------------------------------------------------------
RECURSIVE SeqContains(_, _)
SeqContains(s, x) ==
    IF s = <<>> THEN FALSE
    ELSE IF Head(s) = x THEN TRUE ELSE SeqContains(Tail(s), x)

\* position of the dict entry with key uid in a table, 0 when absent
RECURSIVE TableIndexFrom(_, _, _)
TableIndexFrom(tt, uid, i) ==
    IF i > Len(tt) THEN 0
    ELSE IF tt[i].uid = uid THEN i ELSE TableIndexFrom(tt, uid, i + 1)

TableIndex(tt, uid) == TableIndexFrom(tt, uid, 1)
TableHas(tt, uid) == TableIndex(tt, uid) # 0
TableGet(tt, uid) == tt[TableIndex(tt, uid)]
TableKeys(tt) == {tt[i].uid : i \in 1..Len(tt)}

\* dict assignment d[uid] = task: an existing key keeps its position, a new key
\* goes last
TableSet(tt, task) ==
    IF TableHas(tt, task.uid)
    THEN [tt EXCEPT ![TableIndex(tt, task.uid)] = task]
    ELSE Append(tt, task)

\* ---------------------------------------------------------------------------
\* Task ordering (Task.__lt__)
\* ---------------------------------------------------------------------------
TaskLt_PendingBelowPending(a, b) ==
    \/ a.status = "pending" /\ b.status \in {"pending", "acquired", "redundant",
                                             "rescheduled", "delivered", "failed"}
    \/ a.status = "acquired" /\ b.status \in {"redundant", "rescheduled",
                                              "delivered", "failed"}
    \/ a.status \in {"redundant", "rescheduled"} /\ b.status \in {"delivered", "failed"}

TaskLt(a, b) ==
    \/ a.status = "pending" /\ b.status \in {"acquired", "redundant", "rescheduled",
                                             "delivered", "failed"}
    \/ a.status = "acquired" /\ b.status \in {"redundant", "rescheduled",
                                              "delivered", "failed"}
    \/ a.status \in {"redundant", "rescheduled"} /\ b.status \in {"delivered", "failed"}

\* ---------------------------------------------------------------------------
\* Task table change tracking and merge
\* ---------------------------------------------------------------------------
\* Node._update_task_change_tracker: append the task uid to the list of every
\* neighbour that is not excluded
UpdateTaskChangeTracker_MarksSender(upd, task_id, excluded) ==
    [k \in DOMAIN upd |-> Append(upd[k], task_id)]

UpdateTaskChangeTracker(upd, task_id, excluded) ==
    [k \in DOMAIN upd |-> IF k \in excluded THEN upd[k] ELSE Append(upd[k], task_id)]

\* Node._merge_task_tables: st is [tt, upd]; the batch tt_other is walked in its
\* dict order
RECURSIVE MergeTaskTables_ReplacesUnlessGreater(_, _, _)
MergeTaskTables_ReplacesUnlessGreater(st, tt_other, frm) ==
    IF tt_other = <<>> THEN st
    ELSE LET task == Head(tt_other)
             skip == /\ TableHas(st.tt, task.uid)
                     /\ TaskLt(task, TableGet(st.tt, task.uid))
             nxt  == IF skip THEN st
                     ELSE [tt  |-> TableSet(st.tt, task),
                           upd |-> UpdateTaskChangeTracker(st.upd, task.uid, {frm})]
         IN MergeTaskTables_ReplacesUnlessGreater(nxt, Tail(tt_other), frm)

RECURSIVE MergeTaskTables_InsertOnly(_, _, _)
MergeTaskTables_InsertOnly(st, tt_other, frm) ==
    IF tt_other = <<>> THEN st
    ELSE LET task == Head(tt_other)
             skip == TableHas(st.tt, task.uid)
             nxt  == IF skip THEN st
                     ELSE [tt  |-> TableSet(st.tt, task),
                           upd |-> UpdateTaskChangeTracker(st.upd, task.uid, {frm})]
         IN MergeTaskTables_InsertOnly(nxt, Tail(tt_other), frm)

RECURSIVE MergeTaskTables(_, _, _)
MergeTaskTables(st, tt_other, frm) ==
    IF tt_other = <<>> THEN st
    ELSE LET task == Head(tt_other)
             skip == /\ TableHas(st.tt, task.uid)
                     /\ ~TaskLt(TableGet(st.tt, task.uid), task)
             nxt  == IF skip THEN st
                     ELSE [tt  |-> TableSet(st.tt, task),
                           upd |-> UpdateTaskChangeTracker(st.upd, task.uid, {frm})]
         IN MergeTaskTables(nxt, Tail(tt_other), frm)

\* merge of whole tables, the change lists left aside
MergeTables(tt, tt_other) ==
    MergeTaskTables([tt |-> tt, upd |-> [k \in {} |-> <<>>]], tt_other, 0).tt

\* ---------------------------------------------------------------------------
\* Specification of the merge on drawn task tables
\* ---------------------------------------------------------------------------
\* the tables a node can hold over the task uids ids: every subset of ids,
\* in ascending uid order, each task in any status, stamped with the node
TablesOf(n, ids) ==
    LET Pick == [ids -> Statuses \cup {"absent"}]
        RECURSIVE Build(_, _)
        Build(f, i) ==
            IF i > MaxTaskId THEN <<>>
            ELSE IF i \in ids /\ f[i] # "absent"
                 THEN <<[uid |-> i, status |-> f[i], by |-> n]>> \o Build(f, i + 1)
                 ELSE Build(f, i + 1)
    IN {Build(f, 1) : f \in Pick}

\* the batches a node can send from its table: what its change list selects
\* (Node._handshake, Node._task_table_send): a sub-sequence of distinct uids in
\* any order
RECURSIVE Perms(_)
Perms(S) ==
    IF S = {} THEN {<<>>}
    ELSE UNION {{<<x>> \o p : p \in Perms(S \ {x})} : x \in S}

BatchesOf(tt) ==
    UNION {{[i \in 1..Len(p) |-> TableGet(tt, p[i])] : p \in Perms(K)} :
           K \in SUBSET TableKeys(tt)}

\* Node 1 receives; its table holds at most two tasks drawn over every task uid,
\* the tables of the senders 2 and 0 are drawn over the uids {1, 2} and {1};
\* node 1 has task 1 marked as changed for node 2 already
MergeInit ==
    /\ \E ids \in {S \in SUBSET TaskIds : Cardinality(S) <= 2} :
       \E t1 \in {t \in TablesOf(1, ids) : Len(t) = Cardinality(ids)} :
       \E t2 \in TablesOf(2, {1, 2}), t0 \in TablesOf(0, {1}) :
          task_table = (0 :> t0) @@ (1 :> t1) @@ (2 :> t2)
    /\ task_table_updates =
          [n \in Nodes |-> [k \in Neighbours(n) |->
                               IF n = 1 /\ k = 2 THEN <<1>> ELSE <<>>]]
    /\ ev = NoEvent
    /\ cfg = [msr |-> FALSE]
    /\ now = 0
    /\ queue = <<>>
    /\ node = [n \in Nodes |-> [buffer |-> <<>>]]
    /\ bundles = <<>>
    /\ ledger = [n \in Nodes |-> <<>>]
    /\ crashed = FALSE

\* Node.task_table_receive
TaskTableReceive(n, frm, batch) ==
    LET r == MergeTaskTables([tt |-> task_table[n], upd |-> task_table_updates[n]],
                             batch, frm)
    IN /\ task_table' = [task_table EXCEPT ![n] = r.tt]
       /\ task_table_updates' = [task_table_updates EXCEPT ![n] = r.upd]
       /\ ev' = [kind |-> "merge", node |-> n, frm |-> frm, batch |-> batch,
                 pre |-> task_table[n], preupd |-> task_table_updates[n]]

MergeStep ==
    \E frm \in Neighbours(1) : \E batch \in BatchesOf(task_table[frm]) :
        /\ ev.kind = "none"
        /\ TaskTableReceive(1, frm, batch)
        /\ UNCHANGED simVars

MergeNext == MergeStep

SpecMerge == MergeInit /\ [][MergeNext]_vars

\* ---------------------------------------------------------------------------
\* Claims on the task ordering and the merge (checked under SpecMerge)
\* ---------------------------------------------------------------------------
\* the ranks of the task ordering: pending < acquired < {redundant, rescheduled}
\* < {delivered, failed}
Rank(status) ==
    CASE status = "pending" -> 0
      [] status = "acquired" -> 1
      [] status \in {"redundant", "rescheduled"} -> 2
      [] status \in {"delivered", "failed"} -> 3

\* what TaskTesting.test_task_order asserts: pairs that must be less, pairs that
\* must not
TestTaskOrderLess ==
    {<<"pending", "acquired">>, <<"acquired", "delivered">>, <<"pending", "delivered">>,
     <<"redundant", "delivered">>, <<"pending", "redundant">>, <<"acquired", "redundant">>}
TestTaskOrderNotLess == {<<"pending", "pending">>}

TasksInState ==
    UNION {{task_table[n][i] : i \in 1..Len(task_table[n])} : n \in Nodes}

BatchUids(batch) == {batch[i].uid : i \in 1..Len(batch)}

\* the entry of uid changed between the tables pre and post
EntryChanged(pre, post, uid) ==
    \/ ~TableHas(pre, uid) /\ TableHas(post, uid)
    \/ TableHas(pre, uid) /\ TableHas(post, uid) /\ TableGet(pre, uid) # TableGet(post, uid)

\* C6: after a batch is merged, every incoming (uid, task) is in the table if the
\* uid was absent, has replaced the local entry if and only if the local task was
\* strictly less, and has left it as it was when the statuses were equal or the
\* local one was not less; the other entries are untouched.
C6_MergeRule ==
    ev.kind = "merge" =>
        LET pre  == ev.pre
            post == task_table[ev.node]
        IN /\ TableKeys(post) = TableKeys(pre) \cup BatchUids(ev.batch)
           /\ \A u \in TableKeys(pre) \ BatchUids(ev.batch) :
                  TableGet(post, u) = TableGet(pre, u)
           /\ \A i \in 1..Len(ev.batch) :
                  LET inc == ev.batch[i] IN
                  IF ~TableHas(pre, inc.uid) THEN TableGet(post, inc.uid) = inc
                  ELSE LET loc == TableGet(pre, inc.uid) IN
                       /\ TaskLt(loc, inc) => TableGet(post, inc.uid) = inc
                       /\ ~TaskLt(loc, inc) => TableGet(post, inc.uid) = loc
                       /\ loc.status = inc.status => TableGet(post, inc.uid) = loc
                       /\ Rank(loc.status) >= Rank(inc.status) =>
                              TableGet(post, inc.uid) = loc

\* a merge that replaced one entry and kept another whose status was equal
C6_Witness ==
    /\ ev.kind = "merge"
    /\ \E i, j \in 1..Len(ev.batch) :
          /\ TableHas(ev.pre, ev.batch[i].uid)
          /\ TaskLt(TableGet(ev.pre, ev.batch[i].uid), ev.batch[i])
          /\ TableGet(task_table[ev.node], ev.batch[i].uid) = ev.batch[i]
          /\ TableHas(ev.pre, ev.batch[j].uid)
          /\ TableGet(ev.pre, ev.batch[j].uid).status = ev.batch[j].status
          /\ TableGet(task_table[ev.node], ev.batch[j].uid).by = ev.node

SameStatus(x, y) ==
    /\ TableKeys(x) = TableKeys(y)
    /\ \A u \in TableKeys(x) : TableGet(x, u).status = TableGet(y, u).status

SameRank(x, y) ==
    /\ TableKeys(x) = TableKeys(y)
    /\ \A u \in TableKeys(x) : Rank(TableGet(x, u).status) = Rank(TableGet(y, u).status)

FullBatch(batch, tt) == BatchUids(batch) = TableKeys(tt)

\* C8 as stated: the table that results from merging does not depend on the order
\* or the grouping of the merges, and two nodes that merged each other's table
\* hold the same status for every shared uid.
C8_MergeCommutesOnStatus ==
    LET a == task_table[1]
        b == task_table[2]
        c == task_table[0]
    IN /\ ev.kind = "none" =>
          /\ SameStatus(MergeTables(MergeTables(a, b), c), MergeTables(MergeTables(a, c), b))
          /\ SameStatus(MergeTables(MergeTables(a, b), c), MergeTables(a, MergeTables(b, c)))
          /\ SameStatus(MergeTables(a, b), MergeTables(b, a))
       /\ ev.kind = "merge" /\ FullBatch(ev.batch, task_table[ev.frm]) =>
          LET other == MergeTables(task_table[ev.frm], a)
          IN \A u \in TableKeys(a) \cap TableKeys(other) :
                 TableGet(a, u).status = TableGet(other, u).status

\* C8 amended: the rank of the status that results for every uid does not depend
\* on the order or the grouping of the merges, and two nodes that merged each
\* other's table hold statuses of the same rank for every shared uid.
C8_MergeCommutesOnRank ==
    LET a == task_table[1]
        b == task_table[2]
        c == task_table[0]
    IN /\ ev.kind = "none" =>
          /\ SameRank(MergeTables(MergeTables(a, b), c), MergeTables(MergeTables(a, c), b))
          /\ SameRank(MergeTables(MergeTables(a, b), c), MergeTables(a, MergeTables(b, c)))
          /\ SameRank(MergeTables(a, b), MergeTables(b, a))
       /\ ev.kind = "merge" /\ FullBatch(ev.batch, task_table[ev.frm]) =>
          LET other == MergeTables(task_table[ev.frm], a)
          IN \A u \in TableKeys(a) \cap TableKeys(other) :
                 Rank(TableGet(a, u).status) = Rank(TableGet(other, u).status)

\* the three tables hold one uid in three different ranks
C8_Witness ==
    \E u \in TaskIds :
        /\ \A n \in Nodes : TableHas(task_table[n], u)
        /\ Rank(TableGet(task_table[1], u).status) < Rank(TableGet(task_table[2], u).status)
        /\ Rank(TableGet(task_table[2], u).status) < Rank(TableGet(task_table[0], u).status)

RECURSIVE ChangedUids(_, _, _)
ChangedUids(pre, post, batch) ==
    IF batch = <<>> THEN <<>>
    ELSE (IF EntryChanged(pre, post, Head(batch).uid) THEN <<Head(batch).uid>> ELSE <<>>)
         \o ChangedUids(pre, post, Tail(batch))

\* C9: after a merge, the uids of the entries it inserted or replaced have been
\* appended to the change list of every neighbour but the sender of the batch, and
\* nothing else was added to or removed from any change list.
C9_ChangeMarking ==
    ev.kind = "merge" =>
        LET changed == ChangedUids(ev.pre, task_table[ev.node], ev.batch)
        IN \A k \in Neighbours(ev.node) :
               task_table_updates[ev.node][k] =
                   IF k = ev.frm THEN ev.preupd[k] ELSE ev.preupd[k] \o changed

\* a merge that changed one entry and left another, with change lists in use
C9_Witness ==
    /\ ev.kind = "merge"
    /\ \E i, j \in 1..Len(ev.batch) :
          /\ EntryChanged(ev.pre, task_table[ev.node], ev.batch[i].uid)
          /\ ~EntryChanged(ev.pre, task_table[ev.node], ev.batch[j].uid)
    /\ \E k \in Neighbours(ev.node) : ev.preupd[k] # <<>>
    /\ \E k \in Neighbours(ev.node) : ev.preupd[k] = <<>>

\* ---------------------------------------------------------------------------
\* Contacts (routing.py, class Contact)
\* ---------------------------------------------------------------------------
\* stands for sys.maxsize; products of two such values stay representable
MaxSize == 10000

Max(a, b) == IF a >= b THEN a ELSE b
Min(a, b) == IF a <= b THEN a ELSE b

RECURSIVE SeqSum(_)
SeqSum(s) == IF s = <<>> THEN 0 ELSE Head(s) + SeqSum(Tail(s))

SeqSet(s) == {s[i] : i \in 1..Len(s)}

RECURSIVE SeqFilterIn(_, _)
SeqFilterIn(s, S) ==
    IF s = <<>> THEN <<>>
    ELSE (IF Head(s) \in S THEN <<Head(s)>> ELSE <<>>) \o SeqFilterIn(Tail(s), S)

\* list.remove(x): the first occurrence goes
RECURSIVE SeqRemove(_, _)
SeqRemove(s, x) ==
    IF s = <<>> THEN <<>>
    ELSE IF Head(s) = x THEN Tail(s) ELSE <<Head(s)>> \o SeqRemove(Tail(s), x)

Reverse(s) == [i \in 1..Len(s) |-> s[Len(s) + 1 - i]]

\* Contact(frm, to, to_eid, start, end, rate, confidence, owlt)
Contact(frm, to, to_eid, start, end, rate, owlt) ==
    [frm |-> frm, to |-> to, to_eid |-> to_eid, start |-> start, end |-> end,
     rate |-> rate, confidence |-> 1, owlt |-> owlt]

\* Contact.uid, the string "frm_to_start"
ContactUid(c) == <<c.frm, c.to, c.start>>

\* Contact.volume as set by __post_init__
ContactVolume(c) == c.rate * (c.end - c.start)

\* Contact.mav as set by __post_init__
InitialMav(c) == <<ContactVolume(c), ContactVolume(c), ContactVolume(c)>>

\* min(contact.mav)
MinMav(m) == Min(m[1], Min(m[2], m[3]))

\* Contact.__lt__
ContactLt(a, b) ==
    IF a.start < b.start THEN TRUE
    ELSE IF a.start = b.start
         THEN IF a.end - a.start < b.end - b.start THEN TRUE
              ELSE IF a.end - a.start = b.end - b.start
                   THEN a.confidence > b.confidence
                   ELSE FALSE
         ELSE FALSE

\* ---------------------------------------------------------------------------
\* Routes (routing.py, class Route); a route is the sequence of its hops
\* ---------------------------------------------------------------------------
\* first_byte_tx_time of the hops from position i on (Route.refresh_metrics)
RECURSIVE FirstByteTxTimes(_, _, _)
FirstByteTxTimes(h, i, prev_last_byte_arr_time) ==
    IF i > Len(h) THEN <<>>
    ELSE LET first_byte_tx_time ==
                 IF i = 1 THEN h[1].start
                 ELSE Max(h[i].start, prev_last_byte_arr_time)
         IN <<first_byte_tx_time>>
            \o FirstByteTxTimes(h, i + 1, first_byte_tx_time + 0 + h[i].owlt)

RECURSIVE MinSuccStopTime(_, _)
MinSuccStopTime(h, i) ==
    IF i > Len(h) THEN MaxSize ELSE Min(h[i].end, MinSuccStopTime(h, i + 1))

RECURSIVE MinEffectiveVolumeLimit(_, _, _)
MinEffectiveVolumeLimit(h, fbt, i) ==
    IF i > Len(h) THEN MaxSize
    ELSE LET effective_stop_time == Min(h[i].end, MinSuccStopTime(h, i))
             effective_duration == effective_stop_time - fbt[i]
             effective_volume_limit ==
                 Min(effective_duration * h[i].rate, ContactVolume(h[i]))
         IN Min(effective_volume_limit, MinEffectiveVolumeLimit(h, fbt, i + 1))

\* Route.volume after refresh_metrics
RouteVolume(h) == MinEffectiveVolumeLimit(h, FirstByteTxTimes(h, 1, 0), 1)

\* Route.best_delivery_time
RECURSIVE BestDeliveryTimeFrom(_, _, _)
BestDeliveryTimeFrom(h, i, bdt) ==
    IF i > Len(h) THEN bdt
    ELSE BestDeliveryTimeFrom(h, i + 1, Max(bdt + h[i].owlt, h[i].start + h[i].owlt))

BestDeliveryTime(h) == BestDeliveryTimeFrom(h, 1, 0)

\* Route.confidence
RECURSIVE RouteConfidence(_)
RouteConfidence(h) == IF h = <<>> THEN 1 ELSE Head(h).confidence * RouteConfidence(Tail(h))

\* Route.__lt__, on the hops of the two routes
RouteLt(a, b) ==
    IF BestDeliveryTime(a) < BestDeliveryTime(b) THEN TRUE
    ELSE IF BestDeliveryTime(a) = BestDeliveryTime(b)
         THEN IF RouteVolume(a) > RouteVolume(b) THEN TRUE
              ELSE IF RouteVolume(a) = RouteVolume(b)
                   THEN RouteConfidence(a) >= RouteConfidence(b)
                   ELSE FALSE
         ELSE FALSE

\* ---------------------------------------------------------------------------
\* Bundles (bundles.py)
\* ---------------------------------------------------------------------------
\* Bundle.__lt__
BundleLt(a, b) ==
    IF a.critical /\ ~b.critical THEN TRUE
    ELSE IF a.critical /\ b.critical /\ a.age > b.age THEN TRUE
    ELSE IF a.priority > b.priority THEN TRUE
    ELSE IF a.priority = b.priority
         THEN IF a.created_at < b.created_at THEN TRUE
              ELSE IF a.created_at = b.created_at
                   THEN a.hop_count > b.hop_count
                   ELSE FALSE
         ELSE FALSE

\* ---------------------------------------------------------------------------
\* list.sort() of a list of fewer than 64 objects: the first run is found and
\* reversed when it descends, the rest goes in by binary insertion; only the
\* objects' __lt__ is consulted
\* ---------------------------------------------------------------------------
ObjLt(kind, a, b) ==
    CASE kind = "contact" -> ContactLt(a, b)
      [] kind = "route" -> RouteLt(a.recs, b.recs)
      [] kind = "bundle" -> BundleLt(a, b)

RECURSIVE CountRun(_, _, _, _)
CountRun(kind, s, k, descending) ==
    IF k > Len(s) THEN k - 1
    ELSE IF ObjLt(kind, s[k], s[k - 1]) = descending
         THEN CountRun(kind, s, k + 1, descending)
         ELSE k - 1

\* where the pivot goes among s[1..r]: l and r count the elements to the left
RECURSIVE BinarySearch(_, _, _, _, _)
BinarySearch(kind, s, pivot, l, r) ==
    IF l >= r THEN l
    ELSE LET p == l + ((r - l) \div 2)
         IN IF ObjLt(kind, pivot, s[p + 1])
            THEN BinarySearch(kind, s, pivot, l, p)
            ELSE BinarySearch(kind, s, pivot, p + 1, r)

RECURSIVE BinarySort(_, _, _)
BinarySort(kind, s, start) ==
    IF start >= Len(s) THEN s
    ELSE LET pivot == s[start + 1]
             Insert(l) == SubSeq(s, 1, l) \o <<pivot>> \o SubSeq(s, l + 1, start)
                              \o SubSeq(s, start + 2, Len(s))
         IN BinarySort(kind, Insert(BinarySearch(kind, s, pivot, 0, start)), start + 1)

PySort(kind, s) ==
    IF Len(s) < 2 THEN s
    ELSE LET Run(descending, n) ==
                 IF descending
                 THEN Reverse(SubSeq(s, 1, n)) \o SubSeq(s, n + 1, Len(s))
                 ELSE s
             Sort(descending, n) == BinarySort(kind, Run(descending, n), n)
             Count(descending) == Sort(descending, CountRun(kind, s, 3, descending))
         IN Count(ObjLt(kind, s[2], s[1]))

\* ---------------------------------------------------------------------------
\* Route search (routing.py, cgr_dijkstra)
\* A contact is named by its position in the node's copy of the contact plan;
\* 0 names the root contact that cgr_yens builds.  A search q carries
\*   cp    the node's contacts, by position
\*   cpl   contact_plan, the list that is searched
\*   rid   the root contact, rrec its fields
\*   snh   suppressed_next_hop of every contact, sup the suppressed contacts
\*   dest, deadline, size
\* ---------------------------------------------------------------------------
NoContact == 0 - 1

\* Contact.clear_dijkstra_area
ClearDijkstraArea == [arr |-> MaxSize, vis |-> FALSE, pred |-> NoContact, vn |-> <<>>]

ContactOf(q, c) == IF c = q.rid THEN q.rrec ELSE q.cp[c]

\* contact_plan_hash[n]: the contacts of the plan that leave n, in plan order
RECURSIVE ContactPlanHash(_, _, _)
ContactPlanHash(cp, cpl, n) ==
    IF cpl = <<>> THEN <<>>
    ELSE (IF cp[Head(cpl)].frm = n THEN <<Head(cpl)>> ELSE <<>>)
         \o ContactPlanHash(cp, Tail(cpl), n)

\* a variant whose keys are the senders only
ContactPlanHashKeys_SendersOnly(cp, cpl) == {cp[cpl[i]].frm : i \in 1..Len(cpl)}

\* the keys of contact_plan_hash: the sender and the receiver of every contact
ContactPlanHashKeys(cp, cpl) ==
    {cp[cpl[i]].frm : i \in 1..Len(cpl)} \cup {cp[cpl[i]].to : i \in 1..Len(cpl)}

\* a variant that does not screen the contacts to a node already visited
DijkstraReview_NoVisitedNodes(q, d, current, c) ==
    LET contact == q.cp[c]
        cur == ContactOf(q, current)
        cw == d.wa[current]
        arrvl_time == IF contact.start < cw.arr THEN cw.arr + contact.owlt
                      ELSE contact.start + contact.owlt
    IN IF \/ SeqContains(q.snh[current], c)
          \/ c \in q.sup
          \/ d.wa[c].vis
          \/ contact.start >= q.deadline
          \/ contact.end * contact.rate <= cw.arr * contact.rate + q.size
          \/ ContactVolume(contact) < q.size
          \/ (cur.frm = contact.to /\ cur.to = contact.frm)
          \/ ~(arrvl_time < d.wa[c].arr)
       THEN d
       ELSE LET reached == contact.to_eid = q.dest /\ arrvl_time < d.fin_arr
            IN [wa |-> [d.wa EXCEPT ![c] = [arr |-> arrvl_time, vis |-> FALSE,
                                             pred |-> current,
                                             vn |-> Append(cw.vn, contact.to)]],
                final |-> IF reached THEN c ELSE d.final,
                fin_arr |-> IF reached THEN arrvl_time ELSE d.fin_arr,
                err |-> d.err]

\* the body of the loop over contact_plan_hash[current.to] for one contact c;
\* d is [wa, final, fin_arr, err]
DijkstraReview(q, d, current, c) ==
    LET contact == q.cp[c]
        cur == ContactOf(q, current)
        cw == d.wa[current]
        arrvl_time == IF contact.start < cw.arr THEN cw.arr + contact.owlt
                      ELSE contact.start + contact.owlt
    IN IF \/ SeqContains(q.snh[current], c)
          \/ c \in q.sup
          \/ d.wa[c].vis
          \/ SeqContains(cw.vn, contact.to)
          \/ contact.start >= q.deadline
          \/ contact.end * contact.rate <= cw.arr * contact.rate + q.size
          \/ ContactVolume(contact) < q.size
          \/ (cur.frm = contact.to /\ cur.to = contact.frm)
          \/ ~(arrvl_time < d.wa[c].arr)
       THEN d
       ELSE LET reached == contact.to_eid = q.dest /\ arrvl_time < d.fin_arr
            IN [wa |-> [d.wa EXCEPT ![c] = [arr |-> arrvl_time, vis |-> FALSE,
                                             pred |-> current,
                                             vn |-> Append(cw.vn, contact.to)]],
                final |-> IF reached THEN c ELSE d.final,
                fin_arr |-> IF reached THEN arrvl_time ELSE d.fin_arr,
                err |-> d.err]

RECURSIVE DijkstraReviewAll(_, _, _, _)
DijkstraReviewAll(q, d, current, cs) ==
    IF cs = <<>> THEN d
    ELSE DijkstraReviewAll(q, DijkstraReview(q, d, current, Head(cs)), current, Tail(cs))

\* the search for the best next contact among all of the plan
RECURSIVE DijkstraSelect(_, _, _, _, _)
DijkstraSelect(q, d, cs, earliest_arr_t, next_contact) ==
    IF cs = <<>> THEN next_contact
    ELSE LET c == Head(cs)
         IN IF d.wa[c].vis \/ c \in q.sup \/ d.wa[c].arr > d.fin_arr
               \/ ~(d.wa[c].arr < earliest_arr_t)
            THEN DijkstraSelect(q, d, Tail(cs), earliest_arr_t, next_contact)
            ELSE DijkstraSelect(q, d, Tail(cs), d.wa[c].arr, c)

RECURSIVE DijkstraLoop(_, _, _)
DijkstraLoop(q, d, current) ==
    LET Continue(d2, next_contact) ==
            IF next_contact = NoContact THEN d2 ELSE DijkstraLoop(q, d2, next_contact)
        Select(d2) == Continue(d2, DijkstraSelect(q, d2, q.cpl, MaxSize, NoContact))
        Visit(reviewed) == Select([reviewed EXCEPT !.wa[current].vis = TRUE])
    IN IF ContactOf(q, current).to \notin ContactPlanHashKeys(q.cp, q.cpl)
       THEN [d EXCEPT !.err = TRUE]
       ELSE Visit(DijkstraReviewAll(q, d, current,
                                    ContactPlanHash(q.cp, q.cpl,
                                                    ContactOf(q, current).to)))

\* the hops from the root (left out) to contact c, along the predecessors
RECURSIVE DijkstraHops(_, _, _)
DijkstraHops(q, d, c) ==
    IF c = q.rid THEN <<>> ELSE Append(DijkstraHops(q, d, d.wa[c].pred), c)

\* cgr_dijkstra(root_contact, destination, contact_plan, deadline, size); the
\* root contact comes with its arrival_time and visited_nodes.  The result is
\* [found, hops, err]; err stands for the KeyError of a failed look-up in
\* contact_plan_hash
CgrDijkstra(q, root_arrival_time, root_visited_nodes) ==
    IF q.rrec.to \notin {q.cp[q.cpl[i]].to : i \in 1..Len(q.cpl)}
    THEN [found |-> FALSE, hops |-> <<>>, err |-> FALSE]
    ELSE LET vn == IF SeqContains(root_visited_nodes, q.rrec.to)
                   THEN root_visited_nodes
                   ELSE Append(root_visited_nodes, q.rrec.to)
             wa == [c \in SeqSet(q.cpl) \cup {q.rid} |->
                       IF c = q.rid
                       THEN [arr |-> root_arrival_time, vis |-> FALSE,
                             pred |-> NoContact, vn |-> vn]
                       ELSE ClearDijkstraArea]
             Result(d) ==
                 IF d.err \/ d.final = NoContact
                 THEN [found |-> FALSE, hops |-> <<>>, err |-> d.err]
                 ELSE [found |-> TRUE, hops |-> DijkstraHops(q, d, d.final),
                       err |-> FALSE]
         IN Result(DijkstraLoop(q, [wa |-> wa, final |-> NoContact, fin_arr |-> MaxSize,
                                    err |-> FALSE],
                                q.rid))

\* ---------------------------------------------------------------------------
\* Yen's k shortest routes (routing.py, cgr_yens).  A call g carries cp, cpl,
\* dest and rrec, the root contact Contact(src, src, src, t_now, maxsize, maxsize)
\* ---------------------------------------------------------------------------
RootContact(src, t_now) == Contact(src, src, src, t_now, MaxSize, MaxSize, 0)

RecOf(g, c) == IF c = 0 THEN g.rrec ELSE g.cp[c]
RecsOf(g, hops) == [i \in 1..Len(hops) |-> RecOf(g, hops[i])]

\* clear_management_area on every contact of the plan
ClearManagementArea(snh, cpl) ==
    [c \in DOMAIN snh |-> IF c \in SeqSet(cpl) THEN <<>> ELSE snh[c]]

\* a spur search that suppresses no next hop of the known routes
YensSuppressNextHops_None(y, routes, root_path, spur_contact) == y

\* the loop over the known routes that fills spur_contact.suppressed_next_hop;
\* y is [snh, err]
RECURSIVE YensSuppressNextHops(_, _, _, _)
YensSuppressNextHops(y, routes, root_path, spur_contact) ==
    IF routes = <<>> THEN y
    ELSE LET route == Head(routes)
             n == Len(root_path)
         IN IF Len(route) >= n /\ SubSeq(route, 1, n) = root_path
            THEN IF Len(route) = n
                 THEN [y EXCEPT !.err = TRUE]
                 ELSE YensSuppressNextHops(
                          IF SeqContains(y.snh[spur_contact], route[n + 1]) THEN y
                          ELSE [y EXCEPT !.snh[spur_contact] = Append(@, route[n + 1])],
                          Tail(routes), root_path, spur_contact)
            ELSE YensSuppressNextHops(y, Tail(routes), root_path, spur_contact)

RECURSIVE HopsTo(_, _)
HopsTo(g, hops) ==
    IF hops = <<>> THEN <<>> ELSE <<RecOf(g, Head(hops)).to>> \o HopsTo(g, Tail(hops))

\* the body of the loop over the spur contacts of the last route, for the
\* spur contact at position i; y is [potential_routes, snh, err]
YensSpur(g, y, routes, i) ==
    LET last == routes[Len(routes)]
        spur_contact == last[i]
        root_path == SubSeq(last, 1, i)
        Result(s, spur_path) ==
            IF s.err \/ spur_path.err THEN [y EXCEPT !.snh = s.snh, !.err = TRUE]
            ELSE [potential_routes |->
                      IF /\ spur_path.found
                         /\ ~SeqContains(y.potential_routes, root_path \o spur_path.hops)
                      THEN Append(y.potential_routes, root_path \o spur_path.hops)
                      ELSE y.potential_routes,
                  snh |-> s.snh, err |-> FALSE]
        Search(s) ==
            Result(s, CgrDijkstra([cp |-> g.cp, cpl |-> g.cpl, rid |-> spur_contact,
                                   rrec |-> RecOf(g, spur_contact), snh |-> s.snh,
                                   sup |-> SeqSet(SubSeq(root_path, 1, i - 1)),
                                   dest |-> g.dest, deadline |-> MaxSize, size |-> 0],
                                  BestDeliveryTime(RecsOf(g, root_path)),
                                  HopsTo(g, root_path)))
    IN Search(YensSuppressNextHops([snh |-> ClearManagementArea(y.snh, g.cpl),
                                    err |-> y.err],
                                   routes, root_path, spur_contact))

RECURSIVE YensSpurs(_, _, _, _)
YensSpurs(g, y, routes, i) ==
    IF i > Len(routes[Len(routes)]) - 1 \/ y.err THEN y
    ELSE YensSpurs(g, YensSpur(g, y, routes, i), routes, i + 1)

SortRoutes(g, routes) ==
    LET Hops(sorted) == [i \in 1..Len(sorted) |-> sorted[i].hops]
    IN Hops(PySort("route", [i \in 1..Len(routes) |->
                                [hops |-> routes[i], recs |-> RecsOf(g, routes[i])]]))

\* the loop over k; the routes carry the root contact in front
RECURSIVE YensLoop(_, _, _, _)
YensLoop(g, y, routes, k) ==
    IF k <= 0 THEN [routes |-> routes, snh |-> y.snh, err |-> y.err]
    ELSE LET Take(y2, sorted) ==
                 YensLoop(g, [y2 EXCEPT !.potential_routes = Tail(sorted)],
                          Append(routes, Head(sorted)), k - 1)
             Step(y2) ==
                 IF y2.err \/ y2.potential_routes = <<>>
                 THEN [routes |-> routes, snh |-> y2.snh, err |-> y2.err]
                 ELSE Take(y2, SortRoutes(g, y2.potential_routes))
         IN Step(YensSpurs(g, y, routes, 1))

\* cgr_yens(src, dest, contact_plan, t_now, num_routes, routes): the routes
\* list is extended in place; the result is [routes, snh, err]
CgrYens(cp, cpl, src, dest, t_now, num_routes, routes, snh) ==
    LET g == [cp |-> cp, cpl |-> cpl, dest |-> dest, rrec |-> RootContact(src, t_now)]
        snh_root == [snh EXCEPT ![0] = <<>>]
        first_snh == IF routes = <<>> THEN ClearManagementArea(snh_root, cpl) ELSE snh_root
        Result(r) == [routes |-> [i \in 1..Len(r.routes) |-> Tail(r.routes[i])],
                      snh |-> r.snh, err |-> r.err]
        Rooted(known) == [i \in 1..Len(known) |-> <<0>> \o known[i]]
        Extend(known) ==
            Result(YensLoop(g, [potential_routes |-> <<>>, snh |-> first_snh,
                                err |-> FALSE],
                            Rooted(known), num_routes - 1))
        First(first) == IF ~first.found
                        THEN [routes |-> routes, snh |-> first_snh, err |-> first.err]
                        ELSE Extend(<<first.hops>>)
    IN IF routes = <<>>
       THEN First(CgrDijkstra([cp |-> cp, cpl |-> cpl, rid |-> 0, rrec |-> g.rrec,
                               snh |-> first_snh, sup |-> {}, dest |-> dest,
                               deadline |-> MaxSize, size |-> 0], t_now, <<>>))
       ELSE Extend(routes)

\* ---------------------------------------------------------------------------
\* Candidate routes (routing.py, candidate_routes)
\* ---------------------------------------------------------------------------
\* sum(b.size for b in obq[next_node] if b.priority >= bundle.priority)
RECURSIVE ApplicableBacklog(_, _, _)
ApplicableBacklog(bnd, q, priority) ==
    IF q = <<>> THEN 0
    ELSE (IF bnd[Head(q)].priority >= priority THEN bnd[Head(q)].size ELSE 0)
         + ApplicableBacklog(bnd, Tail(q), priority)

\* the volume of the earlier contacts with the first hop's neighbour
RECURSIVE ApplicableBacklogRelief(_, _, _, _)
ApplicableBacklogRelief(cp, cpl, hop, curr_time) ==
    IF cpl = <<>> THEN 0
    ELSE LET contact == cp[Head(cpl)]
         IN (IF /\ contact.frm = hop.frm /\ contact.to = hop.to
                /\ contact.end > curr_time /\ contact.start < hop.start
             THEN (contact.end - Max(curr_time, contact.start)) * contact.rate
             ELSE 0)
            + ApplicableBacklogRelief(cp, Tail(cpl), hop, curr_time)

\* first_byte_tx_time of the hops from position i on, for a bundle of the
\* given size that starts on the first hop at early_tx_opportunity
RECURSIVE ProjectedTxTimes(_, _, _, _, _)
ProjectedTxTimes(h, i, size, early_tx_opportunity, prev_last_byte_arr_time) ==
    IF i > Len(h) THEN <<>>
    ELSE LET first_byte_tx_time ==
                 IF i = 1 THEN early_tx_opportunity
                 ELSE Max(h[i].start, prev_last_byte_arr_time)
             last_byte_arr_time == first_byte_tx_time + (size \div h[i].rate) + h[i].owlt
         IN <<first_byte_tx_time>>
            \o ProjectedTxTimes(h, i + 1, size, early_tx_opportunity, last_byte_arr_time)

\* last_byte_arr_time of hop i
ProjectedArrivalTime(h, fbt, size, i) ==
    fbt[i] + (size \div h[i].rate) + h[i].owlt

\* a limit that looks at the time left on the hops and not at their mav
RECURSIVE RouteVolumeLimit_DurationOnly(_, _, _, _, _, _)
RouteVolumeLimit_DurationOnly(h, hops, fbt, mav, priority, i) ==
    IF i > Len(h) THEN MaxSize
    ELSE Min((Min(h[i].end, MinSuccStopTime(h, i)) - fbt[i]) * h[i].rate,
             RouteVolumeLimit_DurationOnly(h, hops, fbt, mav, priority, i + 1))

RECURSIVE RouteVolumeLimit(_, _, _, _, _, _)
RouteVolumeLimit(h, hops, fbt, mav, priority, i) ==
    IF i > Len(h) THEN MaxSize
    ELSE LET effective_stop_time == Min(h[i].end, MinSuccStopTime(h, i))
             effective_duration == effective_stop_time - fbt[i]
             effective_volume_limit ==
                 Min(effective_duration * h[i].rate, mav[hops[i]][priority + 1])
         IN Min(effective_volume_limit,
                RouteVolumeLimit(h, hops, fbt, mav, priority, i + 1))

\* is the route (its hops, by position in cp) a candidate for the bundle
IsCandidate(cp, cpl, mav, bnd, obq, curr_time, bundle, hops) ==
    LET h == [i \in 1..Len(hops) |-> cp[hops[i]]]
        adjusted_start_time == Max(curr_time, h[1].start)
        applicable_backlog_p == ApplicableBacklog(bnd, obq[h[1].to], bundle.priority)
        residual_backlog ==
            Max(0, applicable_backlog_p - ApplicableBacklogRelief(cp, cpl, h[1], curr_time))
        early_tx_opportunity == adjusted_start_time + (residual_backlog \div h[1].rate)
        fbt == ProjectedTxTimes(h, 1, bundle.size, early_tx_opportunity, 0)
        route_volume_limit == RouteVolumeLimit(h, hops, fbt, mav, bundle.priority, 1)
    IN /\ ~(BestDeliveryTime(h) > bundle.deadline)
       /\ ~(early_tx_opportunity > h[1].end)
       /\ ~(ProjectedArrivalTime(h, fbt, bundle.size, Len(h)) > bundle.deadline)
       /\ ~(route_volume_limit <= 0)
       /\ (~bundle.fragment => ~(route_volume_limit < bundle.size))

RECURSIVE CandidateFilter(_, _, _, _, _, _, _, _)
CandidateFilter(cp, cpl, mav, bnd, obq, curr_time, bundle, routes) ==
    IF routes = <<>> THEN <<>>
    ELSE (IF IsCandidate(cp, cpl, mav, bnd, obq, curr_time, bundle, Head(routes))
          THEN <<Head(routes)>> ELSE <<>>)
         \o CandidateFilter(cp, cpl, mav, bnd, obq, curr_time, bundle, Tail(routes))

\* candidate_routes(curr_time, curr_node, contact_plan, bundle, routes, [], obq)
CandidateRoutes(cp, cpl, mav, bnd, obq, curr_time, bundle, routes) ==
    SortRoutes([cp |-> cp],
               CandidateFilter(cp, cpl, mav, bnd, obq, curr_time, bundle, routes))

\* ---------------------------------------------------------------------------
\* Node: buffer, outbound queues and contact resources (node.py, bundles.py)
\* The operators work on st, the fields of one Node together with
\*   uid, eid, cp, capacity, msr   what the node was constructed with
\*   bnd    the Bundle objects
\*   led    the enqueues of this node that were not returned to the buffer
\*   log    what the handler did, in order
\*   err    an exception was raised
\* ---------------------------------------------------------------------------
None == 0 - 1

RECURSIVE BundleSizes(_, _)
BundleSizes(bnd, s) == IF s = <<>> THEN 0 ELSE bnd[Head(s)].size + BundleSizes(bnd, Tail(s))

\* Buffer.capacity_remaining
CapacityRemaining(st) == st.capacity - BundleSizes(st.bnd, st.buffer)

\* list.sort() of a list of bundles
SortBundles(bnd, s) ==
    LET Ids(sorted) == [i \in 1..Len(sorted) |-> sorted[i].id]
    IN Ids(PySort("bundle", [i \in 1..Len(s) |-> bnd[s[i]]]))

\* Buffer.append
BufferAppend(st, b) ==
    IF CapacityRemaining(st) >= st.bnd[b].size
    THEN [st EXCEPT !.buffer = SortBundles(st.bnd, Append(@, b))]
    ELSE st

\* Node._contact_resource_update; the priorities of the bundles are in [0, 1, 2]
RECURSIVE ContactResourceUpdate_OwnPriorityOnly(_, _, _, _)
ContactResourceUpdate_OwnPriorityOnly(mav, contacts, size, priority) ==
    IF contacts = <<>> THEN mav
    ELSE ContactResourceUpdate_OwnPriorityOnly(
             [mav EXCEPT ![Head(contacts)] =
                 [p \in 1..3 |-> IF p = priority + 1 THEN @[p] - size ELSE @[p]]],
             Tail(contacts), size, priority)

RECURSIVE ContactResourceUpdate(_, _, _, _)
ContactResourceUpdate(mav, contacts, size, priority) ==
    IF contacts = <<>> THEN mav
    ELSE ContactResourceUpdate(
             [mav EXCEPT ![Head(contacts)] =
                 [p \in 1..3 |-> IF p <= priority + 1 THEN @[p] - size ELSE @[p]]],
             Tail(contacts), size, priority)

\* the enqueue is entered in the ledger and in the log
NoteEnqueue(st, b, hops, via, t_now) ==
    [st EXCEPT !.led = Append(@, [b |-> b, hops |-> hops, size |-> st.bnd[b].size]),
               !.log = Append(@, [what |-> "enqueue", b |-> b, hops |-> hops, via |-> via,
                                  deadline |-> st.bnd[b].deadline, t |-> t_now])]

RECURSIVE LedgerRemove(_, _)
LedgerRemove(led, b) ==
    IF led = <<>> THEN <<>>
    ELSE IF Head(led).b = b THEN Tail(led) ELSE <<Head(led)>> \o LedgerRemove(Tail(led), b)

\* a variant that leaves _outbound_queue_all alone
AppendToOutboundQueue_QueueOnly(st, b, to) ==
    [st EXCEPT !.outbound_queue[to] = Append(@, b)]

\* Node._append_to_outbound_queue
AppendToOutboundQueue(st, b, to) ==
    [st EXCEPT !.outbound_queue[to] = Append(@, b),
               !.outbound_queue_all = Append(@, b)]

\* Node._pop_from_outbound_queue; the bundle popped is Head(st.outbound_queue[to])
PopFromOutboundQueue(st, to) ==
    [st EXCEPT !.outbound_queue[to] = Tail(@),
               !.outbound_queue_all = SeqRemove(@, Head(st.outbound_queue[to]))]

\* Node._return_bundle_to_buffer
ReturnBundleToBuffer_NoRefund(st, b, why) ==
    LET bundle == st.bnd[b]
        noted == [st EXCEPT
                     !.led = LedgerRemove(@, b),
                     !.log = Append(@, [what |-> "return", b |-> b, why |-> why,
                                        obey_route |-> bundle.obey_route,
                                        route |-> bundle.route])]
    IN BufferAppend(noted, b)

ReturnBundleToBuffer(st, b, why) ==
    LET bundle == st.bnd[b]
        refunded == IF bundle.route # <<>>
                    THEN [st EXCEPT !.mav = ContactResourceUpdate(
                                       @, bundle.route, 0 - bundle.size, bundle.priority)]
                    ELSE st
        noted == [refunded EXCEPT
                     !.led = LedgerRemove(@, b),
                     !.log = Append(@, [what |-> "return", b |-> b, why |-> why,
                                        obey_route |-> bundle.obey_route,
                                        route |-> bundle.route])]
    IN BufferAppend(noted, b)

\* Node._return_outbound_queue_to_buffer
RECURSIVE ReturnOutboundQueueToBuffer(_, _)
ReturnOutboundQueueToBuffer(st, to) ==
    IF st.outbound_queue[to] = <<>> THEN st
    ELSE ReturnOutboundQueueToBuffer(
             ReturnBundleToBuffer(PopFromOutboundQueue(st, to),
                                  Head(st.outbound_queue[to]), "contact end"),
             to)

\* the contacts of the plan with min(mav) < 0, in plan order
RECURSIVE OverbookedContacts(_, _)
OverbookedContacts(mav, cpl) ==
    IF cpl = <<>> THEN <<>>
    ELSE (IF MinMav(mav[Head(cpl)]) < 0 THEN <<Head(cpl)>> ELSE <<>>)
         \o OverbookedContacts(mav, Tail(cpl))

\* a variant of the loop that pops the first bundle of the sorted list
RECURSIVE OverBookingLoop_PopsHighest(_, _, _)
OverBookingLoop_PopsHighest(st, overbooked_contacts, return_to_obq) ==
    IF ~\E c \in SeqSet(overbooked_contacts) : MinMav(st.mav[c]) < 0
    THEN [st EXCEPT !.outbound_queue_all = @ \o return_to_obq]
    ELSE IF st.outbound_queue_all = <<>>
    THEN [st EXCEPT !.err = "IndexError"]
    ELSE LET b == Head(st.outbound_queue_all)
             popped == [st EXCEPT !.outbound_queue_all = Tail(@)]
             bundle == st.bnd[b]
         IN IF SeqSet(bundle.route) \cap SeqSet(overbooked_contacts) # {}
            THEN LET to == st.cp[bundle.route[1]].to
                     removed == [popped EXCEPT !.outbound_queue[to] = SeqRemove(@, b),
                                               !.bnd[b].obey_route = FALSE,
                                               !.bnd[b].preempted = TRUE]
                 IN OverBookingLoop_PopsHighest(ReturnBundleToBuffer(removed, b, "over-booking"),
                                    overbooked_contacts, return_to_obq)
            ELSE OverBookingLoop_PopsHighest(popped, overbooked_contacts, Append(return_to_obq, b))

\* the while loop of Node._contact_over_booking
RECURSIVE OverBookingLoop(_, _, _)
OverBookingLoop(st, overbooked_contacts, return_to_obq) ==
    IF ~\E c \in SeqSet(overbooked_contacts) : MinMav(st.mav[c]) < 0
    THEN [st EXCEPT !.outbound_queue_all = @ \o return_to_obq]
    ELSE IF st.outbound_queue_all = <<>>
    THEN [st EXCEPT !.err = "IndexError"]
    ELSE LET b == st.outbound_queue_all[Len(st.outbound_queue_all)]
             popped == [st EXCEPT !.outbound_queue_all = SubSeq(@, 1, Len(@) - 1)]
             bundle == st.bnd[b]
         IN IF SeqSet(bundle.route) \cap SeqSet(overbooked_contacts) # {}
            THEN LET to == st.cp[bundle.route[1]].to
                     removed == [popped EXCEPT !.outbound_queue[to] = SeqRemove(@, b),
                                               !.bnd[b].obey_route = FALSE,
                                               !.bnd[b].preempted = TRUE]
                 IN OverBookingLoop(ReturnBundleToBuffer(removed, b, "over-booking"),
                                    overbooked_contacts, return_to_obq)
            ELSE OverBookingLoop(popped, overbooked_contacts, Append(return_to_obq, b))

\* Node._contact_over_booking
ContactOverBooking_KeepsAll(st) == st

ContactOverBooking(st) ==
    LET overbooked_contacts == OverbookedContacts(st.mav, st.contact_plan)
        Noted(sorted, done) ==
            [done EXCEPT !.log = Append(@,
                [what |-> "over-booking", contacts |-> overbooked_contacts,
                 queued |-> sorted.outbound_queue_all,
                 routes |-> [i \in 1..Len(sorted.outbound_queue_all) |->
                                sorted.bnd[sorted.outbound_queue_all[i]].route],
                 kept |-> done.outbound_queue_all,
                 queues |-> done.outbound_queue])]
        Loop(sorted) == Noted(sorted, OverBookingLoop(sorted, overbooked_contacts, <<>>))
    IN IF overbooked_contacts = <<>> THEN st
       ELSE Loop([st EXCEPT !.outbound_queue_all = SortBundles(st.bnd, @)])

\* ---------------------------------------------------------------------------
\* Node: bundle assignment (node.py, _bundle_assignment)
\* ---------------------------------------------------------------------------
\* the number of routes asked of _route_discovery
RouteDiscoveryNum == 10

RECURSIVE SeqFilterRoutes(_, _, _)
SeqFilterRoutes(cp, routes, t_now) ==
    IF routes = <<>> THEN <<>>
    ELSE (IF cp[Head(routes)[1]].end > t_now THEN <<Head(routes)>> ELSE <<>>)
         \o SeqFilterRoutes(cp, Tail(routes), t_now)

RECURSIVE SeqFilterContacts(_, _, _)
SeqFilterContacts(cp, cpl, t_now) ==
    IF cpl = <<>> THEN <<>>
    ELSE (IF cp[Head(cpl)].end > t_now THEN <<Head(cpl)>> ELSE <<>>)
         \o SeqFilterContacts(cp, Tail(cpl), t_now)

\* Node.route_table_eval
RouteTableEval(st, t_now) ==
    [st EXCEPT !.route_table = [dest \in DOMAIN @ |-> SeqFilterRoutes(st.cp, @[dest], t_now)],
               !.contact_plan = SeqFilterContacts(st.cp, @, t_now)]

\* the loop that looks for candidates and discovers more routes when there are
\* none; the result is [st, candidates]
RECURSIVE CandidateSearch(_, _, _, _)
CandidateSearch(st, b, t_now, num_routes) ==
    LET bundle == st.bnd[b]
        table == st.route_table[bundle.dst]
        Discovered(y) == [st EXCEPT !.route_table[bundle.dst] = y.routes,
                                    !.snh = y.snh,
                                    !.err = IF y.err THEN "IndexError" ELSE @]
        Discover(y) ==
            IF y.err \/ Len(y.routes) <= num_routes
            THEN [st |-> Discovered(y), candidates |-> <<>>]
            ELSE CandidateSearch(Discovered(y), b, t_now, Len(y.routes))
        Search(candidates) ==
            IF candidates # <<>> THEN [st |-> st, candidates |-> candidates]
            ELSE IF num_routes = 0
                    \/ BestDeliveryTime(RecsOf([cp |-> st.cp], table[Len(table)]))
                           < bundle.deadline
            THEN Discover(CgrYens(st.cp, st.contact_plan, st.uid, bundle.dst, t_now,
                                  RouteDiscoveryNum, table, st.snh))
            ELSE [st |-> st, candidates |-> <<>>]
    IN Search(CandidateRoutes(st.cp, st.contact_plan, st.mav, st.bnd,
                              st.outbound_queue, t_now, bundle, table))

\* the loop over the candidates: the first route that is in time and that can
\* hold the bundle, <<>> when there is none
RECURSIVE SelectRoute(_, _, _)
SelectRoute(cp, bundle, candidates) ==
    IF candidates = <<>> THEN <<>>
    ELSE LET h == [i \in 1..Len(Head(candidates)) |-> cp[Head(candidates)[i]]]
         IN IF BestDeliveryTime(h) > bundle.deadline \/ RouteVolume(h) < bundle.size
            THEN SelectRoute(cp, bundle, Tail(candidates))
            ELSE Head(candidates)

\* a variant that keeps no list of the bundles it drops
AssignByCgr_ForgetsDropped(st, b, t_now) ==
    IF st.bnd[b].dst \notin DOMAIN st.route_table
    THEN [st EXCEPT !.err = "KeyError"]
    ELSE LET Enqueue(found, route) ==
                 NoteEnqueue([AppendToOutboundQueue(found, b, st.cp[route[1]].to) EXCEPT
                                 !.mav = ContactResourceUpdate(
                                             @, route, st.bnd[b].size,
                                             st.bnd[b].priority),
                                 !.bnd[b].route = route],
                             b, route, "cgr", t_now)
             Assign(found, route) ==
                 IF found.err # "" THEN found
                 ELSE IF route # <<>> THEN Enqueue(found, route)
                 ELSE [found EXCEPT
                          !.bnd[b].dropped_at = t_now,
                          !.log = Append(@, [what |-> "drop", b |-> b, t |-> t_now])]
             Select(s) == Assign(s.st, SelectRoute(st.cp, st.bnd[b], s.candidates))
         IN Select(CandidateSearch(st, b, t_now, Len(st.route_table[st.bnd[b].dst])))

\* the part of the loop body after the MSR branch: CGR assignment, or drop
AssignByCgr(st, b, t_now) ==
    IF st.bnd[b].dst \notin DOMAIN st.route_table
    THEN [st EXCEPT !.err = "KeyError"]
    ELSE LET Enqueue(found, route) ==
                 NoteEnqueue([AppendToOutboundQueue(found, b, st.cp[route[1]].to) EXCEPT
                                 !.mav = ContactResourceUpdate(
                                             @, route, st.bnd[b].size,
                                             st.bnd[b].priority),
                                 !.bnd[b].route = route],
                             b, route, "cgr", t_now)
             Assign(found, route) ==
                 IF found.err # "" THEN found
                 ELSE IF route # <<>> THEN Enqueue(found, route)
                 ELSE [found EXCEPT
                          !.drop_list = Append(@, b),
                          !.bnd[b].dropped_at = t_now,
                          !.log = Append(@, [what |-> "drop", b |-> b, t |-> t_now])]
             Select(s) == Assign(s.st, SelectRoute(st.cp, st.bnd[b], s.candidates))
         IN Select(CandidateSearch(st, b, t_now, Len(st.route_table[st.bnd[b].dst])))

\* a variant that clears the stale route and leaves the obey_route flag set
AssignBundle_KeepsFlag(st, t_now) ==
    LET b == Head(st.buffer)
        bundle == st.bnd[b]
        extracted == [st EXCEPT !.buffer = Tail(@)]
        pinned == bundle.route # <<>> /\ bundle.obey_route
        next_hop == st.cp[bundle.route[1]]
    IN IF pinned /\ next_hop.end > t_now /\ next_hop.frm = st.uid
       THEN NoteEnqueue([AppendToOutboundQueue(extracted, b, next_hop.to) EXCEPT
                            !.mav = ContactResourceUpdate(
                                        @, bundle.route, bundle.size, bundle.priority)],
                        b, bundle.route, "msr", t_now)
       ELSE AssignByCgr(IF pinned
                        THEN [extracted EXCEPT
                                 !.bnd[b].route = <<>>,
                                 !.log = Append(@, [what |-> "stale", b |-> b,
                                                    t |-> t_now])]
                        ELSE extracted,
                        b, t_now)

\* the body of the loop over the buffer for the bundle at its head
AssignBundle(st, t_now) ==
    LET b == Head(st.buffer)
        bundle == st.bnd[b]
        extracted == [st EXCEPT !.buffer = Tail(@)]
        pinned == bundle.route # <<>> /\ bundle.obey_route
        next_hop == st.cp[bundle.route[1]]
    IN IF pinned /\ next_hop.end > t_now /\ next_hop.frm = st.uid
       THEN NoteEnqueue([AppendToOutboundQueue(extracted, b, next_hop.to) EXCEPT
                            !.mav = ContactResourceUpdate(
                                        @, bundle.route, bundle.size, bundle.priority)],
                        b, bundle.route, "msr", t_now)
       ELSE AssignByCgr(IF pinned
                        THEN [extracted EXCEPT
                                 !.bnd[b].route = <<>>,
                                 !.bnd[b].obey_route = FALSE,
                                 !.log = Append(@, [what |-> "stale", b |-> b,
                                                    t |-> t_now])]
                        ELSE extracted,
                        b, t_now)

RECURSIVE AssignAll(_, _)
AssignAll(st, t_now) ==
    IF st.buffer = <<>> \/ st.err # "" THEN st
    ELSE AssignAll(AssignBundle(st, t_now), t_now)

\* what the next call of _bundle_assignment at the same time depends on
AssignmentState(st) ==
    <<st.buffer, st.outbound_queue, st.outbound_queue_all, st.mav, st.route_table,
      st.snh, st.bnd>>

\* Node._bundle_assignment; seen holds the states in which the calls on the
\* stack were entered: a call that is entered in one of them never returns
RECURSIVE BundleAssignment(_, _, _)
BundleAssignment(st, t_now, seen) ==
    IF st.buffer = <<>> THEN st
    ELSE IF AssignmentState(st) \in seen THEN [st EXCEPT !.err = "RecursionError"]
    ELSE LET Again(reconciled) ==
                 IF reconciled.err # "" \/ reconciled.buffer = <<>> THEN reconciled
                 ELSE BundleAssignment(reconciled, t_now,
                                       seen \cup {AssignmentState(st)})
             Reconcile(assigned) ==
                 IF assigned.err # "" THEN assigned
                 ELSE Again(ContactOverBooking(assigned))
         IN Reconcile(AssignAll(RouteTableEval(st, t_now), t_now))


\* ---------------------------------------------------------------------------
\* The simulation (main.py): a mission operations centre that schedules the
\* requests, two satellites, one gateway and one target
\* ---------------------------------------------------------------------------
SCHEDULER_ID == 0
ENDPOINT_ID == 999999
OUTBOUND_QUEUE_INTERVAL == 1
BUNDLE_ASSIGN_REPEAT_TIME == 1

\* simulated time stops after MaxTime
MaxTime == 10
\* the second request arrives no later than MaxRequestTime
MaxRequestTime == 3

Satellites == {1, 2}
Gateways == {3}
Targets == {9}
SimNodes == {SCHEDULER_ID} \cup Satellites \cup Gateways

\* build_contact_plan: the permanent contacts between the centre and the gateway
\* come first, then the contacts that the mobility gives; update_contact_endpoints
\* gives the contacts towards a gateway the endpoint id
ContactPlan ==
    << Contact(3, SCHEDULER_ID, SCHEDULER_ID, 0, MaxTime, MaxSize, 0),
       Contact(SCHEDULER_ID, 3, ENDPOINT_ID, 0, MaxTime, MaxSize, 0),
       Contact(3, 1, 1, 0, 5, 1, 0),
       Contact(3, 2, 2, 0, 5, 1, 0),
       Contact(1, 3, ENDPOINT_ID, 5, 9, 1, 3),
       Contact(1, 3, ENDPOINT_ID, 6, 9, 1, 0),
       Contact(1, 2, 2, 2, 7, 1, 0),
       Contact(2, 3, ENDPOINT_ID, 7, 10, 1, 0) >>

\* the contacts with the target
ContactPlanTargets ==
    << Contact(1, 9, 9, 3, 4, 1, 0),
       Contact(1, 9, 9, 4, 5, 1, 0),
       Contact(1, 9, 9, 6, 8, 1, 0),
       Contact(2, 9, 9, 4, 6, 1, 0) >>

\* a contact is named by its position in ContactPlan \o ContactPlanTargets
AllContacts == ContactPlan \o ContactPlanTargets
PlanIds == [i \in 1..Len(ContactPlan) |-> i]
AllIds == [i \in 1..Len(AllContacts) |-> i]

\* the keys of outbound_queue and of _task_table_updates (init_space_nodes,
\* build_moc)
QueueKeys(n) == IF n = SCHEDULER_ID THEN Satellites \cup Gateways ELSE SimNodes

\* the eid of a node: ENDPOINT_ID for a gateway, else its uid
EidOf(n) == IF n \in Gateways THEN ENDPOINT_ID ELSE n

\* the nodes that main.py subscribes to the topic "<uid>task_table"
TaskTableSubscribers == Satellites \cup Gateways

\* Node.update_contact_plan: _contact_plan_self, sorted
ContactPlanSelf(n) ==
    LET Ids(sorted) == [i \in 1..Len(sorted) |-> sorted[i].id]
        Recs(own) == [i \in 1..Len(own) |->
                         [id |-> own[i], start |-> AllContacts[own[i]].start,
                          end |-> AllContacts[own[i]].end,
                          confidence |-> AllContacts[own[i]].confidence]]
    IN Ids(PySort("contact",
                  Recs(SeqFilterIn(PlanIds, {i \in 1..Len(ContactPlan) :
                                                ContactPlan[i].frm = n})
                       \o SeqFilterIn(AllIds, {i \in Len(ContactPlan) + 1..Len(AllContacts) :
                                                  AllContacts[i].frm = n}))))

\* create_route_tables: the routes to the endpoint that cgr_yens finds at time 0
InitialRoutes(n) ==
    CgrYens(ContactPlan, PlanIds, n, ENDPOINT_ID, 0, RouteDiscoveryNum, <<>>,
            [c \in 0..Len(ContactPlan) |-> <<>>])

\* a Node after __post_init__ and create_route_tables
NewNode(n) ==
    LET WithRoutes(y) ==
            [buffer |-> <<>>,
             outbound_queue |-> [k \in QueueKeys(n) |-> <<>>],
             outbound_queue_all |-> <<>>,
             mav |-> [c \in 1..Len(ContactPlan) |-> InitialMav(ContactPlan[c])],
             contact_plan |-> PlanIds,
             contact_plan_self |-> ContactPlanSelf(n),
             route_table |-> (ENDPOINT_ID :> y.routes),
             snh |-> y.snh,
             drop_list |-> <<>>,
             delivered_bundles |-> <<>>,
             request_queue |-> <<>>,
             handled_requests |-> <<>>,
             failed_requests |-> <<>>,
             request_status |-> <<>>]
    IN WithRoutes(InitialRoutes(n))

\* the contact plan, the contacts with the targets and the end of the run: the
\* ones of main.py unless the run is set up with its own
RunPlan == IF "cp" \in DOMAIN cfg THEN cfg.cp ELSE ContactPlan
RunTargets == IF "cpt" \in DOMAIN cfg THEN cfg.cpt ELSE ContactPlanTargets
RunAll == RunPlan \o RunTargets
RunUntil == IF "until" \in DOMAIN cfg THEN cfg.until ELSE MaxTime

\* the fields of node n that the handlers work on
St(n) ==
    [uid |-> n, eid |-> EidOf(n), cp |-> RunPlan, capacity |-> cfg.capacity,
     msr |-> cfg.msr,
     buffer |-> node[n].buffer,
     outbound_queue |-> node[n].outbound_queue,
     outbound_queue_all |-> node[n].outbound_queue_all,
     mav |-> node[n].mav,
     contact_plan |-> node[n].contact_plan,
     contact_plan_self |-> node[n].contact_plan_self,
     route_table |-> node[n].route_table,
     snh |-> node[n].snh,
     drop_list |-> node[n].drop_list,
     delivered_bundles |-> node[n].delivered_bundles,
     request_queue |-> node[n].request_queue,
     handled_requests |-> node[n].handled_requests,
     failed_requests |-> node[n].failed_requests,
     request_status |-> node[n].request_status,
     task_table |-> task_table[n], updates |-> task_table_updates[n],
     bnd |-> bundles, led |-> ledger[n], log |-> <<>>, err |-> "", out |-> <<>>]

\* the fields of Node in st
NodeOf(st) ==
    [buffer |-> st.buffer,
     outbound_queue |-> st.outbound_queue,
     outbound_queue_all |-> st.outbound_queue_all,
     mav |-> st.mav,
     contact_plan |-> st.contact_plan,
     contact_plan_self |-> st.contact_plan_self,
     route_table |-> st.route_table,
     snh |-> st.snh,
     drop_list |-> st.drop_list,
     delivered_bundles |-> st.delivered_bundles,
     request_queue |-> st.request_queue,
     handled_requests |-> st.handled_requests,
     failed_requests |-> st.failed_requests,
     request_status |-> st.request_status]

\* ---------------------------------------------------------------------------
\* The event queue of the environment: the events are ordered by time, then
\* priority, then insertion
\* ---------------------------------------------------------------------------
URGENT == 0
NORMAL == 1

Event(time, prio, kind, n, arg) ==
    [time |-> time, prio |-> prio, kind |-> kind, node |-> n, arg |-> arg]

RECURSIVE Schedule(_, _)
Schedule(q, e) ==
    IF q = <<>> THEN <<e>>
    ELSE IF Head(q).time < e.time \/ (Head(q).time = e.time /\ Head(q).prio <= e.prio)
    THEN <<Head(q)>> \o Schedule(Tail(q), e)
    ELSE <<e>> \o q

RECURSIVE ScheduleAll(_, _)
ScheduleAll(q, es) ==
    IF es = <<>> THEN q ELSE ScheduleAll(Schedule(q, Head(es)), Tail(es))

\* env.process(generator): the Initialize event of the new process
Process(st, t_now, kind, arg) ==
    [st EXCEPT !.out = Append(@, Event(t_now, URGENT, kind, st.uid, arg))]

\* yield env.timeout(delay)
Timeout(st, t_now, delay, kind, arg) ==
    IF delay < 0 THEN [st EXCEPT !.err = "ValueError"]
    ELSE [st EXCEPT !.out = Append(@, Event(t_now + delay, NORMAL, kind, st.uid, arg))]

\* ---------------------------------------------------------------------------
\* Scheduling of the requests (Scheduler.schedule_task, Node.process_request)
\* A request is [at, target_id, data_volume, priority, deadline_acquire,
\* bundle_lifetime, destination]; a task is [uid, status, by, target, assignee,
\* pickup_time, deadline_acquire, size, priority, lifetime, destination, del_path]
\* ---------------------------------------------------------------------------
\* Task.failed, Task.acquired, Task.delivered
TaskFailed(task, n) == [task EXCEPT !.status = "failed", !.by = n]
TaskAcquired(task, n) == [task EXCEPT !.status = "acquired", !.by = n]
TaskDelivered(task, n) == [task EXCEPT !.status = "delivered", !.by = n]

NoRoutes == [found |-> FALSE, acq |-> <<>>, del |-> <<>>, pickup_time |-> MaxSize,
             delivery_time |-> MaxSize]

\* the earliest acquisition path from the scheduler to the target, the contacts
\* in sup being suppressed
AcquisitionPath(request, curr_time, sup) ==
    CgrDijkstra([cp |-> RunAll, cpl |-> [i \in 1..Len(RunAll) |-> i], rid |-> 0,
                 rrec |-> RootContact(SCHEDULER_ID, curr_time),
                 snh |-> [c \in 0..Len(RunAll) |-> <<>>], sup |-> sup,
                 dest |-> request.target_id, deadline |-> request.deadline_acquire,
                 size |-> 0], curr_time, <<>>)

\* the delivery path from the acquiring node, within the lifetime of the bundle
DeliveryPath(request, acquirer, pickup_time) ==
    CgrDijkstra([cp |-> RunPlan, cpl |-> [i \in 1..Len(RunPlan) |-> i], rid |-> 0,
                 rrec |-> RootContact(acquirer, pickup_time),
                 snh |-> [c \in 0..Len(RunPlan) |-> <<>>], sup |-> {},
                 dest |-> request.destination,
                 deadline |-> pickup_time + request.bundle_lifetime,
                 size |-> request.data_volume], pickup_time, <<>>)

\* a search that stops at the first acquirer that can deliver
RECURSIVE CgsRouting_FirstPair(_, _, _, _)
CgsRouting_FirstPair(request, curr_time, sup, best) ==
    LET Deliver(path_acq, pickup_time, suppressed, path_del) ==
            IF path_del.found
            THEN [found |-> TRUE, acq |-> path_acq.hops, del |-> path_del.hops,
                  pickup_time |-> pickup_time,
                  delivery_time |->
                      Max(pickup_time,
                          BestDeliveryTime([i \in 1..Len(path_del.hops) |->
                                               RunPlan[path_del.hops[i]]]))]
            ELSE CgsRouting_FirstPair(request, curr_time, suppressed, best)
        Acquire(path_acq, pickup_time, acquirer) ==
            Deliver(path_acq, pickup_time,
                    sup \cup {c \in 1..Len(RunAll) :
                                 /\ RunAll[c].frm = acquirer
                                 /\ RunAll[c].to = request.target_id},
                    DeliveryPath(request, acquirer, pickup_time))
        Route(path_acq) ==
            IF ~path_acq.found THEN best
            ELSE Acquire(path_acq,
                         BestDeliveryTime([i \in 1..Len(path_acq.hops) |->
                                              RunAll[path_acq.hops[i]]]),
                         RunAll[path_acq.hops[Len(path_acq.hops)]].frm)
    IN Route(AcquisitionPath(request, curr_time, sup))

\* the loop over the acquisition opportunities: the pair of paths that delivers
\* first is kept
RECURSIVE CgsRouting(_, _, _, _)
CgsRouting(request, curr_time, sup, best) ==
    LET Deliver(path_acq, pickup_time, suppressed, path_del) ==
            IF /\ path_del.found
               /\ Max(pickup_time,
                      BestDeliveryTime([i \in 1..Len(path_del.hops) |->
                                           RunPlan[path_del.hops[i]]]))
                      < best.delivery_time
            THEN CgsRouting(request, curr_time, suppressed,
                            [found |-> TRUE, acq |-> path_acq.hops,
                             del |-> path_del.hops, pickup_time |-> pickup_time,
                             delivery_time |->
                                 Max(pickup_time,
                                     BestDeliveryTime([i \in 1..Len(path_del.hops) |->
                                                          RunPlan[path_del.hops[i]]]))])
            ELSE CgsRouting(request, curr_time, suppressed, best)
        Acquire(path_acq, pickup_time, acquirer) ==
            IF pickup_time >= best.delivery_time THEN best
            ELSE Deliver(path_acq, pickup_time,
                         sup \cup {c \in 1..Len(RunAll) :
                                      /\ RunAll[c].frm = acquirer
                                      /\ RunAll[c].to = request.target_id},
                         DeliveryPath(request, acquirer, pickup_time))
        Route(path_acq) ==
            IF ~path_acq.found THEN best
            ELSE Acquire(path_acq,
                         BestDeliveryTime([i \in 1..Len(path_acq.hops) |->
                                              RunAll[path_acq.hops[i]]]),
                         RunAll[path_acq.hops[Len(path_acq.hops)]].frm)
    IN Route(AcquisitionPath(request, curr_time, sup))

\* Scheduler.schedule_task with every flag set but resource_aware, which the
\* run is set up with: the result is [found, task, mav]
ScheduleTask(st, request, uid, curr_time) ==
    LET Task(best) ==
            [uid |-> uid, status |-> "pending", by |-> st.uid,
             request_ids |-> <<uid>>,
             target |-> request.target_id,
             assignee |-> RunPlan[best.del[1]].frm,
             pickup_time |-> best.pickup_time,
             deadline_acquire |-> request.deadline_acquire,
             size |-> request.data_volume, priority |-> request.priority,
             lifetime |-> request.bundle_lifetime,
             destination |-> request.destination, del_path |-> best.del]
        Scheduled(best) ==
            IF best.found
            THEN [found |-> TRUE, task |-> Task(best),
                  mav |-> IF cfg.resource_aware
                          THEN ContactResourceUpdate(st.mav, best.del, request.data_volume,
                                                     request.priority)
                          ELSE st.mav]
            ELSE [found |-> FALSE, task |-> <<>>, mav |-> st.mav]
    IN Scheduled(CgsRouting(request, curr_time, {}, NoRoutes))

\* Node.request_received; the Request object of the request uid is the entry
\* of request_status that holds its status
RequestReceived(st, uid) ==
    [st EXCEPT !.request_queue = Append(@, uid),
               !.request_status = Append(@, [uid |-> uid, status |-> "initiated"]),
               !.log = Append(@, [what |-> "request_submit", request |-> uid])]

\* request.status = status
RECURSIVE SetRequestStatus(_, _, _)
SetRequestStatus(rs, uid, status) ==
    IF rs = <<>> THEN <<>>
    ELSE <<IF Head(rs).uid = uid THEN [Head(rs) EXCEPT !.status = status] ELSE Head(rs)>>
         \o SetRequestStatus(Tail(rs), uid, status)

\* a variant that takes the first task with the target of the request whatever
\* its pickup_time
RECURSIVE TaskAlreadyServicingRequest_AnyPickup(_, _, _)
TaskAlreadyServicingRequest_AnyPickup(tt, request, i) ==
    IF i > Len(tt) THEN 0
    ELSE IF tt[i].target = request.target_id THEN i
         ELSE TaskAlreadyServicingRequest_AnyPickup(tt, request, i + 1)

\* Node._task_already_servicing_request: the position in the task table of
\* the first task that serves the request, from position i on; 0 for None
RECURSIVE TaskAlreadyServicingRequest(_, _, _)
TaskAlreadyServicingRequest(tt, request, i) ==
    IF i > Len(tt) THEN 0
    ELSE IF tt[i].target = request.target_id /\ tt[i].pickup_time >= request.time_created
         THEN i
         ELSE TaskAlreadyServicingRequest(tt, request, i + 1)

\* a variant that reschedules a request that cannot be served: the request goes
\* back to the request queue
ProcessRequest_Retries(st, request, uid, curr_time) ==
    LET handled == [st EXCEPT !.handled_requests = Append(@, uid)]
        Processed(s) ==
            IF s.found
            THEN [handled EXCEPT
                     !.mav = s.mav,
                     !.request_status = SetRequestStatus(@, uid, "scheduled"),
                     !.task_table = TableSet(@, s.task),
                     !.updates = UpdateTaskChangeTracker(@, uid, {}),
                     !.log = Append(@, [what |-> "task_add", task |-> uid])]
            ELSE [handled EXCEPT
                     !.request_queue = Append(@, uid),
                     !.log = Append(@, [what |-> "request_failed", task |-> uid])]
    IN Processed(ScheduleTask(st, request, uid, curr_time))

\* Node.process_request
ProcessRequest(st, request, uid, curr_time) ==
    LET handled == [st EXCEPT !.handled_requests = Append(@, uid)]
        Attached(i) ==
            [handled EXCEPT
                !.task_table[i].request_ids = Append(@, uid),
                !.log = Append(@, [what |-> "request_duplicated", request |-> uid,
                                   task |-> st.task_table[i].uid])]
        Processed(s) ==
            IF s.found
            THEN [handled EXCEPT
                     !.mav = s.mav,
                     !.request_status = SetRequestStatus(@, uid, "scheduled"),
                     !.task_table = TableSet(@, s.task),
                     !.updates = UpdateTaskChangeTracker(@, uid, {}),
                     !.log = Append(@, [what |-> "task_add", task |-> uid])]
            ELSE [handled EXCEPT
                     !.request_status = SetRequestStatus(@, uid, "failed"),
                     !.failed_requests = Append(@, uid),
                     !.log = Append(@, [what |-> "request_failed", task |-> uid])]
        Serve(i) == IF cfg.request_duplication /\ i # 0 THEN Attached(i)
                    ELSE Processed(ScheduleTask(st, request, uid, curr_time))
    IN Serve(IF cfg.request_duplication
                THEN TaskAlreadyServicingRequest(st.task_table, request, 1)
                ELSE 0)

\* ---------------------------------------------------------------------------
\* Node: contact with a target (node.py, _target_contact_procedure)
\* ---------------------------------------------------------------------------
\* the truth value of an optional number: None and 0 are false
Truthy(x) == x # None /\ x # 0

\* Node._acquire_bundle
AcquireBundle(st, t_now, task) ==
    LET b == Len(st.bnd) + 1
        bundle == [id |-> b, src |-> st.uid, dst |-> task.destination,
                   target_id |-> task.target, created_at |-> t_now, size |-> task.size,
                   deadline |-> t_now + task.lifetime, priority |-> task.priority,
                   critical |-> FALSE, fragment |-> TRUE, task_id |-> task.uid,
                   obey_route |-> st.msr, previous_node |-> None, hop_count |-> 0,
                   route |-> <<>>, age |-> 0, current |-> st.uid, dropped_at |-> None,
                   delivered_at |-> None, preempted |-> FALSE]
        created == [st EXCEPT !.bnd = Append(@, bundle)]
        appended == BufferAppend(created, b)
    IN [appended EXCEPT
           !.bnd[b].route = IF task.del_path # <<>> /\ st.msr THEN task.del_path ELSE @,
           !.log = Append(@, [what |-> "acquire", task |-> task.uid, b |-> b])]

\* a variant that sets the task aside as redundant when the buffer has no room
TargetContactTask_Redundant(st, t_now, target, i) ==
    LET task == st.task_table[i]
        failed == IF task.deadline_acquire < t_now
                  THEN [st EXCEPT !.task_table[i] = TaskFailed(@, st.uid),
                                  !.log = Append(@, [what |-> "task_failed",
                                                     task |-> task.uid])]
                  ELSE st
    IN IF task.status # "pending" THEN st
       ELSE IF Truthy(task.assignee) /\ task.assignee # st.uid THEN st
       ELSE IF task.target # target THEN failed
       ELSE IF Truthy(task.pickup_time) /\ task.pickup_time > t_now THEN failed
       ELSE IF CapacityRemaining(failed) < task.size
       THEN [failed EXCEPT !.task_table[i].status = "redundant",
                           !.log = Append(@, [what |-> "buffer_full", task |-> task.uid,
                                              buffer |-> st.buffer])]
       ELSE [AcquireBundle(failed, t_now, task) EXCEPT
                !.task_table[i] = TaskAcquired(@, st.uid)]

\* a variant in which a node acquires for a task whoever its assignee is
TargetContactTask_AnyNode(st, t_now, target, i) ==
    LET task == st.task_table[i]
    IN IF task.status # "pending" \/ task.target # target THEN st
       ELSE IF Truthy(task.pickup_time) /\ task.pickup_time > t_now THEN st
       ELSE IF CapacityRemaining(st) < task.size THEN st
       ELSE [AcquireBundle(st, t_now, task) EXCEPT
                !.task_table[i] = TaskAcquired(@, st.uid)]

\* the body of the loop over the task table for the task at position i
TargetContactTask(st, t_now, target, i) ==
    LET task == st.task_table[i]
        failed == IF task.deadline_acquire < t_now
                  THEN [st EXCEPT !.task_table[i] = TaskFailed(@, st.uid),
                                  !.log = Append(@, [what |-> "task_failed",
                                                     task |-> task.uid])]
                  ELSE st
    IN IF task.status # "pending" THEN st
       ELSE IF Truthy(task.assignee) /\ task.assignee # st.uid THEN st
       ELSE IF task.target # target THEN failed
       ELSE IF Truthy(task.pickup_time) /\ task.pickup_time > t_now THEN failed
       ELSE IF CapacityRemaining(failed) < task.size
       THEN [failed EXCEPT !.log = Append(@, [what |-> "buffer_full", task |-> task.uid,
                                              buffer |-> st.buffer])]
       ELSE [AcquireBundle(failed, t_now, task) EXCEPT
                !.task_table[i] = TaskAcquired(@, st.uid)]

RECURSIVE TargetContactLoop(_, _, _, _)
TargetContactLoop(st, t_now, target, i) ==
    IF i > Len(st.task_table) THEN st
    ELSE TargetContactLoop(TargetContactTask(st, t_now, target, i), t_now, target, i + 1)

\* Node._target_contact_procedure
TargetContactProcedure(st, t_now, target) ==
    TargetContactLoop([st EXCEPT !.log = Append(@, [what |-> "target_contact",
                                                    target |-> target])],
                      t_now, target, 1)

\* ---------------------------------------------------------------------------
\* Node: contact with a node (node.py, _node_contact_procedure)
\* ---------------------------------------------------------------------------
\* [self.task_table[t] for t in self._task_table_updates[to]]: the message holds
\* the Task objects of the table; live says that the object is still the one
\* in the sender's table, task is what it held when it left the table
TaskBatch(st, to) ==
    [i \in 1..Len(st.updates[to]) |->
        [uid |-> st.updates[to][i], live |-> TRUE,
         task |-> TableGet(st.task_table, st.updates[to][i])]]

\* env.process(self._task_table_send(env, to, delay, tasks)), after which the
\* change list is emptied
SendTaskTable(st, t_now, to, delay) ==
    [Process(st, t_now, "task_table_send",
             [to |-> to, delay |-> delay, batch |-> TaskBatch(st, to)])
     EXCEPT !.updates[to] = <<>>]

\* Node._handshake
Handshake(st, t_now, to, delay) == SendTaskTable(st, t_now, to, delay)

\* the task of a bundle that is sent to its destination is marked as delivered
MarkDelivered(st, b, n) ==
    LET task_id == st.bnd[b].task_id
    IN IF ~TableHas(st.task_table, task_id) THEN [st EXCEPT !.err = "KeyError"]
       ELSE [st EXCEPT
                !.task_table[TableIndex(st.task_table, task_id)] = TaskDelivered(@, n),
                !.updates = UpdateTaskChangeTracker(@, task_id, {}),
                !.log = Append(@, [what |-> "deliver", task |-> task_id, b |-> b])]

\* a variant of the loop that sends the list of changed tasks only when no
\* bundle waits in the outbound queue
RECURSIVE NodeContactLoop_BundlesFirst(_, _, _)
NodeContactLoop_BundlesFirst(st, c, t_now) ==
    LET contact == st.cp[c]
        to == contact.to
        b == Head(st.outbound_queue[to])
        bundle == st.bnd[b]
        popped == PopFromOutboundQueue(st, to)
        send_time == bundle.size \div contact.rate
        sent == [Process(popped, t_now, "bundle_send",
                         [b |-> b, to |-> to, delay |-> contact.owlt + send_time])
                 EXCEPT !.log = Append(@, [what |-> "send", b |-> b, c |-> c,
                                           obey_route |-> bundle.obey_route,
                                           route |-> bundle.route, t |-> t_now])]
        marked == IF to = bundle.dst /\ st.task_table # <<>>
                  THEN MarkDelivered(sent, b, st.uid)
                  ELSE sent
    IN IF ~(t_now < contact.end)
       THEN [ReturnOutboundQueueToBuffer(st, to) EXCEPT
                !.log = Append(@, [what |-> "contact_end", c |-> c])]
       ELSE IF st.updates[to] # <<>> /\ st.outbound_queue[to] = <<>>
       THEN Timeout(SendTaskTable(st, t_now, to, contact.owlt), t_now, 0,
                    "node_contact_procedure", [c |-> c, started |-> TRUE])
       ELSE IF st.outbound_queue[to] = <<>>
       THEN Timeout(st, t_now, OUTBOUND_QUEUE_INTERVAL,
                    "node_contact_procedure", [c |-> c, started |-> TRUE])
       ELSE IF (contact.end - t_now) * contact.rate < bundle.size
       THEN NodeContactLoop_BundlesFirst(ReturnBundleToBuffer(popped, b, "time"), c, t_now)
       ELSE IF bundle.route = <<>>
       THEN NodeContactLoop_BundlesFirst(ReturnBundleToBuffer(popped, b, "no route"), c, t_now)
       ELSE IF st.cp[bundle.route[1]].to # to
       THEN NodeContactLoop_BundlesFirst(ReturnBundleToBuffer(popped, b, "next hop"), c, t_now)
       ELSE IF bundle.obey_route /\ bundle.route[1] # c
       THEN NodeContactLoop_BundlesFirst(ReturnBundleToBuffer(popped, b, "msr"), c, t_now)
       ELSE IF marked.err # "" THEN marked
       ELSE Timeout(marked, t_now, send_time,
                    "node_contact_procedure", [c |-> c, started |-> TRUE])

\* a variant of the loop that sends a bundle whatever time the contact has left
RECURSIVE NodeContactLoop_NoTimeTest(_, _, _)
NodeContactLoop_NoTimeTest(st, c, t_now) ==
    LET contact == st.cp[c]
        to == contact.to
        b == Head(st.outbound_queue[to])
        bundle == st.bnd[b]
        popped == PopFromOutboundQueue(st, to)
        send_time == bundle.size \div contact.rate
        sent == [Process(popped, t_now, "bundle_send",
                         [b |-> b, to |-> to, delay |-> contact.owlt + send_time])
                 EXCEPT !.log = Append(@, [what |-> "send", b |-> b, c |-> c,
                                           obey_route |-> bundle.obey_route,
                                           route |-> bundle.route, t |-> t_now])]
        marked == IF to = bundle.dst /\ st.task_table # <<>>
                  THEN MarkDelivered(sent, b, st.uid)
                  ELSE sent
    IN IF ~(t_now < contact.end)
       THEN [ReturnOutboundQueueToBuffer(st, to) EXCEPT
                !.log = Append(@, [what |-> "contact_end", c |-> c])]
       ELSE IF st.updates[to] # <<>>
       THEN Timeout(SendTaskTable(st, t_now, to, contact.owlt), t_now, 0,
                    "node_contact_procedure", [c |-> c, started |-> TRUE])
       ELSE IF st.outbound_queue[to] = <<>>
       THEN Timeout(st, t_now, OUTBOUND_QUEUE_INTERVAL,
                    "node_contact_procedure", [c |-> c, started |-> TRUE])
       ELSE IF bundle.route = <<>>
       THEN NodeContactLoop_NoTimeTest(ReturnBundleToBuffer(popped, b, "no route"), c, t_now)
       ELSE IF st.cp[bundle.route[1]].to # to
       THEN NodeContactLoop_NoTimeTest(ReturnBundleToBuffer(popped, b, "next hop"), c, t_now)
       ELSE IF bundle.obey_route /\ bundle.route[1] # c
       THEN NodeContactLoop_NoTimeTest(ReturnBundleToBuffer(popped, b, "msr"), c, t_now)
       ELSE IF marked.err # "" THEN marked
       ELSE Timeout(marked, t_now, send_time,
                    "node_contact_procedure", [c |-> c, started |-> TRUE])

\* the while loop of _node_contact_procedure, up to its next yield or its end
RECURSIVE NodeContactLoop(_, _, _)
NodeContactLoop(st, c, t_now) ==
    LET contact == st.cp[c]
        to == contact.to
        b == Head(st.outbound_queue[to])
        bundle == st.bnd[b]
        popped == PopFromOutboundQueue(st, to)
        send_time == bundle.size \div contact.rate
        sent == [Process(popped, t_now, "bundle_send",
                         [b |-> b, to |-> to, delay |-> contact.owlt + send_time])
                 EXCEPT !.log = Append(@, [what |-> "send", b |-> b, c |-> c,
                                           obey_route |-> bundle.obey_route,
                                           route |-> bundle.route, t |-> t_now])]
        marked == IF to = bundle.dst /\ st.task_table # <<>>
                  THEN MarkDelivered(sent, b, st.uid)
                  ELSE sent
    IN IF ~(t_now < contact.end)
       THEN [ReturnOutboundQueueToBuffer(st, to) EXCEPT
                !.log = Append(@, [what |-> "contact_end", c |-> c])]
       ELSE IF st.updates[to] # <<>>
       THEN Timeout(SendTaskTable(st, t_now, to, contact.owlt), t_now, 0,
                    "node_contact_procedure", [c |-> c, started |-> TRUE])
       ELSE IF st.outbound_queue[to] = <<>>
       THEN Timeout(st, t_now, OUTBOUND_QUEUE_INTERVAL,
                    "node_contact_procedure", [c |-> c, started |-> TRUE])
       ELSE IF (contact.end - t_now) * contact.rate < bundle.size
       THEN NodeContactLoop(ReturnBundleToBuffer(popped, b, "time"), c, t_now)
       ELSE IF bundle.route = <<>>
       THEN NodeContactLoop(ReturnBundleToBuffer(popped, b, "no route"), c, t_now)
       ELSE IF st.cp[bundle.route[1]].to # to
       THEN NodeContactLoop(ReturnBundleToBuffer(popped, b, "next hop"), c, t_now)
       ELSE IF bundle.obey_route /\ bundle.route[1] # c
       THEN NodeContactLoop(ReturnBundleToBuffer(popped, b, "msr"), c, t_now)
       ELSE IF marked.err # "" THEN marked
       ELSE Timeout(marked, t_now, send_time,
                    "node_contact_procedure", [c |-> c, started |-> TRUE])

\* Node._node_contact_procedure from its start or from the yield it waits in
NodeContactProcedure(st, c, started, t_now) ==
    NodeContactLoop(IF started THEN st
                    ELSE Handshake(st, t_now, st.cp[c].to, st.cp[c].owlt),
                    c, t_now)

\* Node.contact_controller from its start or from the yield it waits in, for
\* the contact c (0 at the start)
ContactController(st, c, t_now) ==
    LET dispatched ==
            IF c = 0 THEN st
            ELSE IF c > Len(RunPlan)
            THEN TargetContactProcedure(st, t_now, RunAll[c].to)
            ELSE Process(st, t_now, "node_contact_procedure",
                         [c |-> c, started |-> FALSE])
        next_contact == Head(dispatched.contact_plan_self)
    IN IF dispatched.contact_plan_self = <<>> THEN dispatched
       ELSE Timeout([dispatched EXCEPT !.contact_plan_self = Tail(@)], t_now,
                    RunAll[next_contact].start - t_now,
                    "contact_controller", [c |-> next_contact])

\* Node.bundle_assignment_controller
BundleAssignmentController(st, t_now) ==
    LET assigned == BundleAssignment(st, t_now, {})
    IN IF assigned.err # "" THEN assigned
       ELSE Timeout(assigned, t_now, BUNDLE_ASSIGN_REPEAT_TIME,
                    "bundle_assignment_controller", [c |-> 0])

\* a variant that hands the bundle to the neighbour without waiting
BundleSend_NoWait(st, b, to, delay, t_now) ==
    IF st.bnd[b].route = <<>> THEN [st EXCEPT !.err = "IndexError"]
    ELSE Timeout([st EXCEPT !.bnd[b].previous_node = st.uid,
                            !.bnd[b].age = t_now - st.bnd[b].created_at,
                            !.bnd[b].route = Tail(@)],
                 t_now, 0, "bundle_arrive", [b |-> b, to |-> to])

\* Node._bundle_send up to its yield
BundleSend(st, b, to, delay, t_now) ==
    IF st.bnd[b].route = <<>> THEN [st EXCEPT !.err = "IndexError"]
    ELSE Timeout([st EXCEPT !.bnd[b].previous_node = st.uid,
                            !.bnd[b].age = t_now - st.bnd[b].created_at,
                            !.bnd[b].route = Tail(@)],
                 t_now, delay, "bundle_arrive", [b |-> b, to |-> to])

\* Node.bundle_receive
BundleReceive(st, t_now, b) ==
    LET bundle == st.bnd[b]
        counted == [st EXCEPT !.bnd[b].hop_count = @ + 1, !.bnd[b].current = st.uid]
        delivered == [counted EXCEPT !.bnd[b].delivered_at = t_now,
                                     !.delivered_bundles = Append(@, b)]
    IN IF CapacityRemaining(st) < bundle.size
       THEN [st EXCEPT !.log = Append(@, [what |-> "reject", b |-> b])]
       ELSE IF bundle.dst = st.eid
       THEN IF st.task_table # <<>>
            THEN MarkDelivered(delivered, b, bundle.previous_node)
            ELSE delivered
       ELSE [BufferAppend(counted, b) EXCEPT
                !.log = Append(@, [what |-> "receive", b |-> b])]

\* the Task objects that a message delivers: {t.uid: t for t in updated_tasks}
RECURSIVE ResolveBatch(_, _, _)
ResolveBatch(batch, tt, seen) ==
    IF batch = <<>> THEN <<>>
    ELSE LET x == Head(batch)
         IN IF x.uid \in seen THEN ResolveBatch(Tail(batch), tt, seen)
            ELSE <<IF x.live THEN TableGet(tt, x.uid) ELSE x.task>>
                 \o ResolveBatch(Tail(batch), tt, seen \cup {x.uid})

\* a merge on node n puts new Task objects in its table: the messages of n
\* that are on their way keep the objects that they were made of
DetachBatch(batch, pre, post) ==
    [i \in 1..Len(batch) |->
        IF /\ batch[i].live
           /\ TableGet(pre, batch[i].uid) # TableGet(post, batch[i].uid)
        THEN [uid |-> batch[i].uid, live |-> FALSE, task |-> TableGet(pre, batch[i].uid)]
        ELSE batch[i]]

Detach(q, n, pre, post) ==
    [i \in 1..Len(q) |->
        IF q[i].node = n /\ q[i].kind \in {"task_table_send", "task_table_arrive"}
        THEN [q[i] EXCEPT !.arg.batch = DetachBatch(q[i].arg.batch, pre, post)]
        ELSE q[i]]

\* ---------------------------------------------------------------------------
\* Specification of the simulation (main.py): one action per process step
\* ---------------------------------------------------------------------------
Sizes == {2, 3}
Priorities == {0, 1, 2}
Lifetimes == {3, 8}
Capacities == {2, 6}
\* acquire_time of the run: 0 stands for none
AcquireTimes == {0, 1}

\* requests_generator: the request that arrives at time at
RequestAt(at, size, priority, acquire_time, lifetime) ==
    [at |-> at, time_created |-> at, target_id |-> 9, data_volume |-> size,
     priority |-> priority,
     deadline_acquire |-> IF acquire_time = 0 THEN MaxSize ELSE at + acquire_time,
     bundle_lifetime |-> lifetime, destination |-> ENDPOINT_ID]

\* the requests of a run: one at time 1, and possibly a second one later
RequestSequences ==
    UNION {
        {<<RequestAt(1, s1, p1, a, l)>>}
        \cup {<<RequestAt(1, s1, p1, a, l), RequestAt(at, s2, p2, a, l)>> :
                 at \in 2..MaxRequestTime, s2 \in Sizes, p2 \in Priorities}
        : s1 \in Sizes, p1 \in Priorities, a \in AcquireTimes, l \in Lifetimes}

\* the processes that main.py starts, in its order
RECURSIVE InitialProcesses(_)
InitialProcesses(ns) ==
    IF ns = <<>> THEN <<>>
    ELSE << Event(0, URGENT, "bundle_assignment_controller", Head(ns), [c |-> 0]),
            Event(0, URGENT, "contact_controller", Head(ns), [c |-> 0]) >>
         \o InitialProcesses(Tail(ns))

\* the state in which main.py starts the run of the environment
Started(msr, capacity, requests, request_duplication) ==
    /\ cfg = [msr |-> msr, resource_aware |-> TRUE,
              request_duplication |-> request_duplication,
              capacity |-> capacity, requests |-> requests]
    /\ now = 0
    /\ queue = <<Event(0, URGENT, "requests_generator", SCHEDULER_ID, [i |-> 0])>>
               \o InitialProcesses(<<SCHEDULER_ID, 1, 2, 3>>)
    /\ node = [n \in SimNodes |-> NewNode(n)]
    /\ task_table = [n \in SimNodes |-> <<>>]
    /\ task_table_updates = [n \in SimNodes |-> [k \in QueueKeys(n) |-> <<>>]]
    /\ bundles = <<>>
    /\ ledger = [n \in SimNodes |-> <<>>]
    /\ crashed = FALSE
    /\ ev = NoEvent

\* build_moc gives the mission operations centre request_duplication=False
Init ==
    \E msr \in BOOLEAN, capacity \in Capacities, requests \in RequestSequences :
        Started(msr, capacity, requests, FALSE)

\* the environment runs the first event of the queue
Running(kind) ==
    /\ ~crashed
    /\ queue # <<>>
    /\ Head(queue).time <= RunUntil
    /\ Head(queue).kind = kind

\* the handler has run on node st.uid and has left st
Commit(st) ==
    /\ node' = [node EXCEPT ![st.uid] = NodeOf(st)]
    /\ task_table' = [task_table EXCEPT ![st.uid] = st.task_table]
    /\ task_table_updates' = [task_table_updates EXCEPT ![st.uid] = st.updates]
    /\ bundles' = st.bnd
    /\ ledger' = [ledger EXCEPT ![st.uid] = st.led]
    /\ queue' = ScheduleAll(Tail(queue), st.out)
    /\ now' = Head(queue).time
    /\ crashed' = (st.err # "")
    /\ ev' = [kind |-> Head(queue).kind, node |-> st.uid, t |-> Head(queue).time,
              log |-> st.log, err |-> st.err]
    /\ UNCHANGED cfg

\* requests_generator: the request i arrives and is processed, the next is
\* waited for
RequestsGenerator ==
    /\ Running("requests_generator")
    /\ LET e == Head(queue)
           i == e.arg.i
           st == St(SCHEDULER_ID)
           Popped(received) ==
               ProcessRequest([received EXCEPT !.request_queue = Tail(@)],
                              cfg.requests[Head(received.request_queue)],
                              Head(received.request_queue), e.time)
           processed == IF i = 0 THEN st ELSE Popped(RequestReceived(st, i))
       IN Commit(IF i < Len(cfg.requests)
                 THEN Timeout(processed, e.time, cfg.requests[i + 1].at - e.time,
                              "requests_generator", [i |-> i + 1])
                 ELSE processed)

BundleAssignmentControl ==
    /\ Running("bundle_assignment_controller")
    /\ Commit(BundleAssignmentController(St(Head(queue).node), Head(queue).time))

ContactControl ==
    /\ Running("contact_controller")
    /\ Commit(ContactController(St(Head(queue).node), Head(queue).arg.c,
                                Head(queue).time))

NodeContact ==
    /\ Running("node_contact_procedure")
    /\ Commit(NodeContactProcedure(St(Head(queue).node), Head(queue).arg.c,
                                   Head(queue).arg.started, Head(queue).time))

\* Node._task_table_send up to its yield
TaskTableSend ==
    /\ Running("task_table_send")
    /\ LET e == Head(queue)
       IN Commit(Timeout(St(e.node), e.time, e.arg.delay, "task_table_arrive",
                         [to |-> e.arg.to, batch |-> e.arg.batch]))

\* Node._task_table_send after its yield: the message reaches the subscriber
TaskTableArrive ==
    /\ Running("task_table_arrive")
    /\ LET e == Head(queue)
           to == e.arg.to
           batch == ResolveBatch(e.arg.batch, task_table[e.node], {})
           merged == MergeTaskTables([tt |-> task_table[to],
                                      upd |-> task_table_updates[to]], batch, e.node)
       IN /\ IF to \in TaskTableSubscribers
             THEN /\ TaskTableReceive(to, e.node, batch)
                  /\ queue' = Detach(Tail(queue), to, task_table[to], merged.tt)
             ELSE /\ ev' = [kind |-> e.kind, node |-> to, t |-> e.time,
                            log |-> <<>>, err |-> ""]
                  /\ queue' = Tail(queue)
                  /\ UNCHANGED <<task_table, task_table_updates>>
          /\ now' = e.time
    /\ UNCHANGED <<cfg, node, bundles, ledger, crashed>>

BundleSendStart ==
    /\ Running("bundle_send")
    /\ LET e == Head(queue)
       IN Commit(BundleSend(St(e.node), e.arg.b, e.arg.to, e.arg.delay, e.time))

\* Node._bundle_send after its yield: the bundle reaches the receiving node
BundleArrive ==
    /\ Running("bundle_arrive")
    /\ Commit(BundleReceive(St(Head(queue).arg.to), Head(queue).time, Head(queue).arg.b))

Next ==
    \/ RequestsGenerator
    \/ BundleAssignmentControl
    \/ ContactControl
    \/ NodeContact
    \/ TaskTableSend
    \/ TaskTableArrive
    \/ BundleSendStart
    \/ BundleArrive

Spec == Init /\ [][Next]_vars

\* ---------------------------------------------------------------------------
\* Claims on the contact resources and the forwarding (checked under Spec)
\* ---------------------------------------------------------------------------
\* the entries of the log of the handler that ran last
LogEntries == IF ev.kind \in {"none", "merge"} THEN {}
              ELSE {ev.log[i] : i \in 1..Len(ev.log)}

Forwarded == {x \in LogEntries : x.what = "send"}

\* C1: whenever a node forwards a bundle during a contact, every contact of the
\* contact plan of that node has min(mav) >= 0: the over-booking that a round
\* of assignment made is undone before any bundle is forwarded
C1_NoOverbookingWhenForwarding ==
    Forwarded # {} =>
        \A c \in SeqSet(node[ev.node].contact_plan) : MinMav(node[ev.node].mav[c]) >= 0

\* a node forwards a bundle after one of the bundles that it acquired has been
\* taken off a contact that was over-booked
C1_Witness ==
    /\ Forwarded # {}
    /\ \E b \in 1..Len(bundles) : bundles[b].preempted /\ bundles[b].src = ev.node

\* C2 as it is stated: for every contact and every priority p in {1, 2},
\* mav[p] <= mav[p-1] in every reachable state
C2_MavNonIncreasing ==
    \A n \in SimNodes : \A c \in 1..Len(ContactPlan) : \A p \in 1..2 :
        node[n].mav[c][p + 1] <= node[n].mav[c][p]

\* C2 as the code has it: a reservation at priority p is taken from the levels
\* 0..p, so that for every contact and every priority p in {1, 2},
\* mav[p] >= mav[p-1] in every reachable state
C2_MavNonDecreasing ==
    \A n \in SimNodes : \A c \in 1..Len(ContactPlan) : \A p \in 1..2 :
        node[n].mav[c][p + 1] >= node[n].mav[c][p]

\* a bundle went back to the buffer of a node that holds a reservation at
\* priority 0 and one at priority 1
C2_Witness ==
    /\ \E x \in LogEntries : x.what = "return" /\ x.route # <<>>
    /\ \E c \in 1..Len(ContactPlan) : node[ev.node].mav[c][1] < node[ev.node].mav[c][2]
    /\ \E d \in 1..Len(ContactPlan) : node[ev.node].mav[d][2] < node[ev.node].mav[d][3]

\* the sizes of the enqueues of the ledger whose route holds contact c
RECURSIVE LedgerVolume(_, _)
LedgerVolume(led, c) ==
    IF led = <<>> THEN 0
    ELSE (IF SeqContains(Head(led).hops, c) THEN Head(led).size ELSE 0)
         + LedgerVolume(Tail(led), c)

VolumeConserved(n) ==
    \A c \in 1..Len(ContactPlan) :
        ContactVolume(ContactPlan[c]) - node[n].mav[c][1] = LedgerVolume(ledger[n], c)

C4_DeadlineHonour ==
    \A x \in LogEntries :
        x.what = "enqueue" =>
            BestDeliveryTime([i \in 1..Len(x.hops) |-> ContactPlan[x.hops[i]]])
                <= x.deadline

\* C5: a bundle whose obey_route flag is set is forwarded only during the
\* contact that is the first entry of its route; in any other contact it is
\* returned to the buffer and not sent
C5_MsrPinning ==
    \A x \in LogEntries :
        /\ (x.what = "send" /\ x.obey_route) => x.route[1] = x.c
        /\ (x.what = "return" /\ x.why = "msr") =>
               SeqContains(node[ev.node].buffer, x.b)

\* C10: bundle delivery and acquisition on a target contact both update the
\* status of the task on the node and mark the task as changed for all of the
\* neighbours of the node
C10_StatusChangeMarked ==
    \A x \in LogEntries :
        x.what \in {"acquire", "deliver"} =>
            /\ TableGet(task_table[ev.node], x.task).status
                   = (IF x.what = "acquire" THEN "acquired" ELSE "delivered")
            /\ \A k \in DOMAIN task_table_updates[ev.node] :
                   SeqContains(task_table_updates[ev.node][k], x.task)

\* ---------------------------------------------------------------------------
\* The route search on its own: cgr_dijkstra and cgr_yens applied to contact
\* plans drawn from a pool.  Node 1 is the source, the nodes 4 and 5 make up
\* the endpoint RouteEndpoint, the nodes 2 and 3 relay
\* ---------------------------------------------------------------------------
PlanLen == 4

RouteSource == 1
RouteEndpoint == 9
RouteEid(n) == IF n \in {4, 5} THEN RouteEndpoint ELSE n

RoutePairs == <<<<1, 2>>, <<2, 3>>, <<3, 1>>, <<1, 4>>, <<2, 4>>, <<3, 4>>, <<2, 5>>>>
\* <<start, end, owlt>>
RouteWindows == <<<<0, 4, 0>>, <<0, 4, 3>>, <<3, 8, 0>>>>
RouteStartTimes == {0, 4}

RoutePoolContact(p, w) == Contact(p[1], p[2], RouteEid(p[2]), w[1], w[2], 1, w[3])

RoutePool ==
    [k \in 1..(Len(RoutePairs) * Len(RouteWindows)) |->
        RoutePoolContact(RoutePairs[((k - 1) \div Len(RouteWindows)) + 1],
                         RouteWindows[((k - 1) % Len(RouteWindows)) + 1])]

\* the plans: PlanLen different contacts of the pool, in an order or its reverse
RoutePlans ==
    LET Ascending == {s \in [1..PlanLen -> 1..Len(RoutePool)] :
                          \A i \in 1..(PlanLen - 1) : s[i] < s[i + 1]}
    IN UNION {{[i \in 1..PlanLen |-> RoutePool[s[i]]],
               [i \in 1..PlanLen |-> RoutePool[s[PlanLen + 1 - i]]]} : s \in Ascending}

RouteInit ==
    /\ \E plan \in RoutePlans, t_now \in RouteStartTimes :
          cfg = [plan |-> plan, src |-> RouteSource, dest |-> RouteEndpoint,
                 t_now |-> t_now]
    /\ ev = NoEvent
    /\ task_table = [n \in Nodes |-> <<>>]
    /\ task_table_updates = [n \in Nodes |-> [k \in Neighbours(n) |-> <<>>]]
    /\ now = 0
    /\ queue = <<>>
    /\ node = [n \in Nodes |-> [buffer |-> <<>>]]
    /\ bundles = <<>>
    /\ ledger = [n \in Nodes |-> <<>>]
    /\ crashed = FALSE

RoutePlanIds == [i \in 1..PlanLen |-> i]

\* cgr_dijkstra(Contact(src, src, t_now, maxsize, maxsize), dest, contact_plan)
RouteSearch ==
    /\ ev.kind = "none"
    /\ ev' = [kind |-> "dijkstra",
              route |-> CgrDijkstra([cp |-> cfg.plan, cpl |-> RoutePlanIds, rid |-> 0,
                                     rrec |-> RootContact(cfg.src, cfg.t_now),
                                     snh |-> [c \in 0..PlanLen |-> <<>>], sup |-> {},
                                     dest |-> cfg.dest, deadline |-> MaxSize,
                                     size |-> 0], cfg.t_now, <<>>)]
    /\ UNCHANGED <<task_table, task_table_updates, simVars>>

\* cgr_yens(src, dest, contact_plan, t_now, num_routes)
RouteDiscovery ==
    /\ ev.kind = "none"
    /\ ev' = [kind |-> "yens",
              found |-> CgrYens(cfg.plan, RoutePlanIds, cfg.src, cfg.dest, cfg.t_now,
                                RouteDiscoveryNum, <<>>,
                                [c \in 0..PlanLen |-> <<>>])]
    /\ UNCHANGED <<task_table, task_table_updates, simVars>>

RouteNext == RouteSearch \/ RouteDiscovery

SpecRoute == RouteInit /\ [][RouteNext]_vars

\* ---------------------------------------------------------------------------
\* Claims on the route search (checked under SpecRoute)
\* ---------------------------------------------------------------------------
\* the routes that the step has returned, each the sequence of its contacts
ReturnedRoutes ==
    IF ev.kind = "dijkstra"
    THEN IF ev.route.found THEN {ev.route.hops} ELSE {}
    ELSE IF ev.kind = "yens"
         THEN {ev.found.routes[i] : i \in 1..Len(ev.found.routes)}
         ELSE {}

\* C11: no route returned by cgr_dijkstra or by cgr_yens has a hop whose
\* receiver is the node the route starts from, and no node is the receiver of
\* two hops of one route
C11_NoBackEdge ==
    \A h \in ReturnedRoutes :
        /\ \A i \in 1..Len(h) : cfg.plan[h[i]].to # cfg.src
        /\ \A i, j \in 1..Len(h) : i # j => cfg.plan[h[i]].to # cfg.plan[h[j]].to

\* cgr_yens has returned two routes or more, one of them of two hops, from a
\* plan that holds a contact back to the source
C11_Witness ==
    /\ ev.kind = "yens"
    /\ Len(ev.found.routes) >= 2
    /\ \E i \in 1..Len(ev.found.routes) : Len(ev.found.routes[i]) = 2
    /\ \E c \in 1..PlanLen : cfg.plan[c].to = cfg.src

\* the arrival time at the end of a route, leaving the source at cfg.t_now
RECURSIVE RouteArrival(_, _, _)
RouteArrival(h, i, arr) ==
    IF i > Len(h) THEN arr
    ELSE RouteArrival(h, i + 1, Max(cfg.plan[h[i]].start, arr) + cfg.plan[h[i]].owlt)

\* the minimum arrival time over the loop-free contact sequences that leave
\* node n at time arr, having visited the nodes of the set visited, and end at a
\* node of the endpoint cfg.dest; MaxSize when there is none.  A contact can
\* follow when it leaves n, ends after arr and leads to a node not yet visited
RECURSIVE EarliestArrival(_, _, _)
EarliestArrival(n, arr, visited) ==
    LET usable == {c \in 1..PlanLen : /\ cfg.plan[c].frm = n
                                      /\ cfg.plan[c].to \notin visited
                                      /\ cfg.plan[c].end > arr}
        Arrival(c) == Max(cfg.plan[c].start, arr) + cfg.plan[c].owlt
        Via(c) == IF cfg.plan[c].to_eid = cfg.dest THEN Arrival(c)
                  ELSE EarliestArrival(cfg.plan[c].to, Arrival(c),
                                       visited \cup {cfg.plan[c].to})
        times == {Via(c) : c \in usable} \cup {MaxSize}
    IN CHOOSE t \in times : \A u \in times : t <= u

\* C12: the route that cgr_dijkstra returns arrives at the destination at the
\* minimum arrival time over all loop-free contact sequences from the source to
\* a node of the endpoint, and cgr_dijkstra returns no route only if there is
\* no such sequence
C12_EarliestArrival ==
    ev.kind = "dijkstra" =>
        IF ev.route.found
        THEN RouteArrival(ev.route.hops, 1, cfg.t_now)
                 = EarliestArrival(cfg.src, cfg.t_now, {cfg.src})
        ELSE EarliestArrival(cfg.src, cfg.t_now, {cfg.src}) = MaxSize

\* C13: when no contact of the plan leaves the node of the root contact,
\* cgr_dijkstra returns no route and raises no error
C13_ContactPlanGap ==
    (/\ ev.kind = "dijkstra"
     /\ \A c \in 1..PlanLen : cfg.plan[c].frm # cfg.src)
        => ~ev.route.found /\ ~ev.route.err

\* the search has run from a source that contacts lead to and none leaves
C13_Witness ==
    /\ ev.kind = "dijkstra"
    /\ \A c \in 1..PlanLen : cfg.plan[c].frm # cfg.src
    /\ \E c \in 1..PlanLen : cfg.plan[c].to = cfg.src
    /\ ~ev.route.found

\* ---------------------------------------------------------------------------
\* The reconciliation of over-booked contacts on its own: satellite 1 stands in
\* _bundle_assignment after the loop over the buffer, which has queued
\* QueuedNum pinned bundles, and _contact_over_booking runs
\* ---------------------------------------------------------------------------
QueuedNum == 3

\* the time of the assignment; the buffer of the satellite has room for all
QueueTime == 4
\* the size of every bundle
QueuedSize == 2
QueueCapacity == QueuedNum * QueuedSize + 3

\* the routes from satellite 1 to the endpoint
PinnedRoutes == {<<5>>, <<6>>, <<7, 8>>}
CreationTimes == {3, 4}

NewNodes == [n \in SimNodes |-> NewNode(n)]

\* a bundle that satellite 1 has acquired, with the delivery path of its task
PinnedBundle(b, x) ==
    [id |-> b, src |-> 1, dst |-> ENDPOINT_ID, target_id |-> 9,
     created_at |-> x.created_at, size |-> QueuedSize,
     deadline |-> x.created_at + 8, priority |-> x.priority,
     critical |-> FALSE, fragment |-> TRUE, task_id |-> b,
     obey_route |-> TRUE, previous_node |-> None, hop_count |-> 0,
     route |-> x.route, age |-> 0, current |-> 1, dropped_at |-> None,
     delivered_at |-> None, preempted |-> FALSE]

\* satellite 1 with the bundles in its buffer
RECURSIVE Buffered(_, _)
Buffered(st, b) ==
    IF b > Len(st.bnd) THEN st ELSE Buffered(BufferAppend(st, b), b + 1)

QueueState(bnd) ==
    LET n == NewNodes[1]
    IN Buffered([uid |-> 1, eid |-> EidOf(1), cp |-> ContactPlan,
                 capacity |-> QueueCapacity, msr |-> TRUE,
                 buffer |-> n.buffer,
                 outbound_queue |-> n.outbound_queue,
                 outbound_queue_all |-> n.outbound_queue_all,
                 mav |-> n.mav,
                 contact_plan |-> n.contact_plan,
                 contact_plan_self |-> n.contact_plan_self,
                 route_table |-> n.route_table,
                 snh |-> n.snh,
                 drop_list |-> n.drop_list,
                 delivered_bundles |-> n.delivered_bundles,
                 request_queue |-> n.request_queue,
                 handled_requests |-> n.handled_requests,
                 failed_requests |-> n.failed_requests,
                 request_status |-> n.request_status,
                 task_table |-> <<>>, updates |-> [k \in QueueKeys(1) |-> <<>>],
                 bnd |-> bnd, led |-> <<>>, log |-> <<>>, err |-> "", out |-> <<>>], 1)

OverBookingInit ==
    /\ \E xs \in [1..QueuedNum -> [created_at : CreationTimes, priority : Priorities,
                                   route : PinnedRoutes]] :
          LET Queued(st) ==
                  /\ node = [NewNodes EXCEPT ![1] = NodeOf(st)]
                  /\ bundles = st.bnd
                  /\ ledger = [n \in SimNodes |-> IF n = 1 THEN st.led ELSE <<>>]
          IN Queued(AssignAll(QueueState([b \in 1..QueuedNum |-> PinnedBundle(b, xs[b])]),
                              QueueTime))
    /\ cfg = [msr |-> TRUE, resource_aware |-> TRUE, request_duplication |-> FALSE,
              capacity |-> QueueCapacity, requests |-> <<>>]
    /\ now = QueueTime
    /\ queue = <<>>
    /\ task_table = [n \in SimNodes |-> <<>>]
    /\ task_table_updates = [n \in SimNodes |-> [k \in QueueKeys(n) |-> <<>>]]
    /\ crashed = FALSE
    /\ ev = NoEvent

\* Node._contact_over_booking on satellite 1
OverBooking ==
    /\ ev.kind = "none"
    /\ LET Done(st) ==
               /\ node' = [node EXCEPT ![1] = NodeOf(st)]
               /\ bundles' = st.bnd
               /\ ledger' = [ledger EXCEPT ![1] = st.led]
               /\ crashed' = (st.err # "")
               /\ ev' = [kind |-> "contact_over_booking", node |-> 1, t |-> now,
                         log |-> st.log, err |-> st.err]
       IN Done(ContactOverBooking(St(1)))
    /\ UNCHANGED <<task_table, task_table_updates, cfg, now, queue>>

OverBookingNext == OverBooking

SpecOverBooking == OverBookingInit /\ [][OverBookingNext]_vars

\* ---------------------------------------------------------------------------
\* Claims on the over-booking (checked under SpecOverBooking)
\* ---------------------------------------------------------------------------
\* the runs of _contact_over_booking in the step
OverBookings == {x \in LogEntries : x.what = "over-booking"}

\* the bundle at position i of the sorted list uses an over-booked contact
UsesOverbooked(x, i) == SeqSet(x.routes[i]) \cap SeqSet(x.contacts) # {}

\* the bundle at position i of the sorted list went back to the buffer
Preempted(x, i) == ~SeqContains(x.kept, x.queued[i])

\* C14: the bundles that _contact_over_booking returns to the buffer use an
\* over-booked contact; a bundle is never returned while a bundle that ranks
\* below it (lower priority, then newer) and uses an over-booked contact stays
\* queued; a bundle that uses no over-booked contact stays in the outbound
\* queue of its next hop
C14_PreemptionOrder ==
    \A x \in OverBookings :
        /\ \A i \in 1..Len(x.queued) : Preempted(x, i) => UsesOverbooked(x, i)
        /\ \A i, j \in 1..Len(x.queued) :
              (/\ Preempted(x, i)
               /\ UsesOverbooked(x, j)
               /\ BundleLt(bundles[x.queued[i]], bundles[x.queued[j]]))
                  => Preempted(x, j)
        /\ \A i \in 1..Len(x.queued) :
              ~UsesOverbooked(x, i)
                  => /\ SeqContains(x.kept, x.queued[i])
                     /\ SeqContains(x.queues[ContactPlan[x.routes[i][1]].to],
                                    x.queued[i])

\* two queued bundles used an over-booked contact, the one of lower rank went
\* back to the buffer and the other stayed queued, and so did a bundle of
\* still lower rank that used no over-booked contact
C14_Witness ==
    \E x \in OverBookings : \E i, j, k \in 1..Len(x.queued) :
        /\ UsesOverbooked(x, i) /\ UsesOverbooked(x, j) /\ ~UsesOverbooked(x, k)
        /\ BundleLt(bundles[x.queued[i]], bundles[x.queued[j]])
        /\ BundleLt(bundles[x.queued[j]], bundles[x.queued[k]])
        /\ ~Preempted(x, i) /\ Preempted(x, j) /\ ~Preempted(x, k)

\* ---------------------------------------------------------------------------
\* The assignment on its own: a satellite holds AssignNum bundles with pinned
\* routes in its buffer and _bundle_assignment runs
\* ---------------------------------------------------------------------------
AssignNum == 2

AssignNodes == {1, 2}
AssignTimes == {4, 8}
\* the pinned routes: the routes from satellite 1 and the route from satellite 2
HeldRoutes == PinnedRoutes \cup {<<8>>}

\* a bundle that the satellite n holds, created at time 3
HeldBundle(n, b, x) ==
    [PinnedBundle(b, [created_at |-> 3, priority |-> x.priority, route |-> x.route])
     EXCEPT !.src = n, !.current = n, !.size = 2, !.deadline = 3 + x.lifetime]

AssignInit ==
    /\ \E n \in AssignNodes, t_now \in AssignTimes :
       \E xs \in [1..AssignNum -> [priority : Priorities, lifetime : Lifetimes,
                                    route : HeldRoutes]] :
          LET Held(st) ==
                  /\ node = [NewNodes EXCEPT ![n] = NodeOf(st)]
                  /\ bundles = st.bnd
                  /\ now = t_now
                  /\ queue = <<[node |-> n]>>
          IN Held(Buffered([QueueState(<<>>) EXCEPT
                               !.uid = n, !.eid = EidOf(n),
                               !.contact_plan_self = NewNodes[n].contact_plan_self,
                               !.route_table = NewNodes[n].route_table,
                               !.snh = NewNodes[n].snh,
                               !.bnd = [b \in 1..AssignNum |-> HeldBundle(n, b, xs[b])]],
                           1))
    /\ cfg = [msr |-> TRUE, resource_aware |-> TRUE, request_duplication |-> FALSE,
              capacity |-> QueueCapacity, requests |-> <<>>]
    /\ ledger = [n \in SimNodes |-> <<>>]
    /\ task_table = [n \in SimNodes |-> <<>>]
    /\ task_table_updates = [n \in SimNodes |-> [k \in QueueKeys(n) |-> <<>>]]
    /\ crashed = FALSE
    /\ ev = NoEvent

\* Node._bundle_assignment on the satellite
Assignment ==
    /\ ev.kind = "none"
    /\ LET n == Head(queue).node
           Done(st) ==
               /\ node' = [node EXCEPT ![n] = NodeOf(st)]
               /\ bundles' = st.bnd
               /\ ledger' = [ledger EXCEPT ![n] = st.led]
               /\ crashed' = (st.err # "")
               /\ ev' = [kind |-> "bundle_assignment", node |-> n, t |-> now,
                         log |-> st.log, err |-> st.err]
       IN Done(BundleAssignment(St(n), now, {}))
    /\ UNCHANGED <<task_table, task_table_updates, cfg, now, queue>>

AssignNext == Assignment

SpecAssignment == AssignInit /\ [][AssignNext]_vars

\* ---------------------------------------------------------------------------
\* The simulation with a mission operations centre that is built with
\* request_duplication=True and receives two requests for the target
\* ---------------------------------------------------------------------------
\* the second request arrives no later than MaxDuplicateTime
MaxDuplicateTime == 4

DuplicateSequences ==
    {<<RequestAt(1, s1, 0, a, l), RequestAt(at, s2, 0, a, l)>> :
        s1 \in Sizes, s2 \in Sizes, a \in AcquireTimes, l \in Lifetimes,
        at \in 2..MaxDuplicateTime}

DuplicationInit ==
    \E msr \in BOOLEAN, capacity \in Capacities, requests \in DuplicateSequences :
        Started(msr, capacity, requests, TRUE)

SpecDuplication == DuplicationInit /\ [][Next]_vars

\* ---------------------------------------------------------------------------
\* Claims on the handling of errors (under Spec, SpecAssignment for C19 and
\* SpecDuplication for C20)
\* ---------------------------------------------------------------------------
\* the status of the request uid on the mission operations centre, "" before
\* the request has arrived
RECURSIVE StatusIn(_, _)
StatusIn(rs, uid) ==
    IF rs = <<>> THEN ""
    ELSE IF Head(rs).uid = uid THEN Head(rs).status ELSE StatusIn(Tail(rs), uid)

RequestStatus(uid) == StatusIn(node[SCHEDULER_ID].request_status, uid)

\* process_request has found no way to serve the request uid in the step
RequestFailed(uid) ==
    \E x \in LogEntries : x.what = "request_failed" /\ x.task = uid

\* C15: when schedule_task finds no acquisition path for a request, the step
\* sets the status of the request to failed, leaves the task table and the
\* lists of changed tasks of the mission operations centre as they were, and
\* leaves the request out of the request queue; the request stays failed, is
\* never handled again and no node ever holds a task for it
C15_InfeasibleRequest ==
    [][\A uid \in 1..Len(cfg.requests) :
          /\ RequestFailed(uid)' =>
                /\ RequestStatus(uid)' = "failed"
                /\ task_table'[SCHEDULER_ID] = task_table[SCHEDULER_ID]
                /\ task_table_updates'[SCHEDULER_ID] = task_table_updates[SCHEDULER_ID]
                /\ ~SeqContains(node'[SCHEDULER_ID].request_queue, uid)
          /\ RequestStatus(uid) = "failed" =>
                /\ RequestStatus(uid)' = "failed"
                /\ ~SeqContains(node'[SCHEDULER_ID].request_queue, uid)
                /\ Cardinality({i \in DOMAIN node'[SCHEDULER_ID].handled_requests :
                                    node'[SCHEDULER_ID].handled_requests[i] = uid}) = 1
                /\ \A n \in SimNodes : ~TableHas(task_table'[n], uid)]_vars

\* the first request has failed and the second one is served by a task
C15_Witness ==
    /\ RequestStatus(1) = "failed"
    /\ RequestStatus(2) = "scheduled"
    /\ TableHas(task_table[SCHEDULER_ID], 2)
    /\ ~TableHas(task_table[SCHEDULER_ID], 1)

\* the node has met a target in the step
TargetContact == \E x \in LogEntries : x.what = "target_contact"

\* the task has missed its deadline when the node meets a target at time t_now
DeadlineMissed(n, task, t_now) ==
    /\ task.status = "pending"
    /\ ~(Truthy(task.assignee) /\ task.assignee # n)
    /\ task.deadline_acquire < t_now

\* C16: after a target contact on a node, every task of the node that was
\* pending, was assigned to the node or to none and had deadline_acquire < now
\* has the status failed, and a task_failed event was emitted for it
C16_DeadlineMissed ==
    [][TargetContact' =>
          \A i \in 1..Len(task_table[ev'.node]) :
              DeadlineMissed(ev'.node, task_table[ev'.node][i], ev'.t) =>
                  /\ task_table'[ev'.node][i].status = "failed"
                  /\ \E x \in LogEntries' :
                        /\ x.what = "task_failed"
                        /\ x.task = task_table[ev'.node][i].uid]_vars

\* the tasks that the node could not acquire in the step for want of room
BufferFull == {x \in LogEntries : x.what = "buffer_full"}

\* no bundle was created for the task and the bundles of the buffer are still
\* in it
NothingAcquired(x) ==
    /\ ~\E y \in LogEntries : y.what = "acquire" /\ y.task = x.task
    /\ ~\E b \in 1..Len(bundles) :
           /\ bundles[b].task_id = x.task
           /\ bundles[b].src = ev.node
           /\ bundles[b].created_at = ev.t
    /\ SeqSet(x.buffer) \subseteq SeqSet(node[ev.node].buffer)

Dropped == {x \in LogEntries : x.what = "drop"}

\* C18: a bundle for which the assignment finds no usable route is out of the
\* buffer, is in the drop list of the node, is in no outbound queue and
\* reserves no contact volume, and a bundle_dropped event was emitted (the
\* entry of the log)
C18_RouteExhausted ==
    \A x \in Dropped :
        /\ ~SeqContains(node[ev.node].buffer, x.b)
        /\ SeqContains(node[ev.node].drop_list, x.b)
        /\ \A k \in DOMAIN node[ev.node].outbound_queue :
               ~SeqContains(node[ev.node].outbound_queue[k], x.b)
        /\ ~SeqContains(node[ev.node].outbound_queue_all, x.b)
        /\ \A i \in 1..Len(ledger[ev.node]) : ledger[ev.node][i].b # x.b
        /\ \A c \in 1..Len(ContactPlan) :
               ContactVolume(ContactPlan[c]) - node[ev.node].mav[c][1]
                   = LedgerVolume(ledger[ev.node], c)

\* a bundle that had been taken off an over-booked contact was dropped while
\* another bundle stays queued on the node
C18_Witness ==
    \E x \in Dropped :
        /\ bundles[x.b].preempted
        /\ node[ev.node].outbound_queue_all # <<>>

\* the positions of the log at which _bundle_assignment has found the pinned
\* route of a bundle stale
StalePositions ==
    IF ev.kind \in {"none", "merge"} THEN {}
    ELSE {i \in 1..Len(ev.log) : ev.log[i].what = "stale"}

\* C19: when the pinned route of a bundle that obeys its route has a next hop
\* that has ended or that does not start at the node, the assignment clears the
\* route and the obey_route flag of the bundle and goes on, in the same round,
\* to plan the bundle with the candidate routes of CGR: the next thing that it
\* does is to queue the bundle on a route that CGR selected or to drop it, and
\* the bundle is not queued on a pinned route again
C19_StaleRoute ==
    \A i \in StalePositions :
        /\ i < Len(ev.log)
        /\ ev.log[i + 1].b = ev.log[i].b
        /\ \/ ev.log[i + 1].what = "enqueue" /\ ev.log[i + 1].via = "cgr"
           \/ ev.log[i + 1].what = "drop" /\ bundles[ev.log[i].b].route = <<>>
        /\ ~bundles[ev.log[i].b].obey_route
        /\ \A j \in (i + 1)..Len(ev.log) :
               (ev.log[j].what = "enqueue" /\ ev.log[j].b = ev.log[i].b)
                   => ev.log[j].via = "cgr"

\* a bundle whose pinned route was stale has been queued on a route of CGR
C19_Witness ==
    \E i \in StalePositions :
        /\ i < Len(ev.log)
        /\ ev.log[i + 1].what = "enqueue"
        /\ ev.log[i + 1].b = ev.log[i].b


\* the requests that process_request has attached to a task in the step
Duplicated == {x \in LogEntries : x.what = "request_duplicated"}

LinkNum == 2

\* the contact from satellite 1 to satellite 2 in the plan
LinkId == CHOOSE c \in 1..Len(ContactPlan) : ContactPlan[c].frm = 1 /\ ContactPlan[c].to = 2
LinkStart == ContactPlan[LinkId].start
LinkEnds == {LinkStart + 4, LinkStart + 6}
LinkRates == {1, 2}
LinkOwlts == {0, 2}
LinkSizes == {2, 4}
\* a bundle is for satellite 2 or goes on from there to the endpoint
LinkRoutes == {[dst |-> 2, route |-> <<LinkId>>],
               [dst |-> ENDPOINT_ID,
                route |-> <<LinkId, CHOOSE c \in 1..Len(ContactPlan) :
                                       ContactPlan[c].frm = 2
                                       /\ ContactPlan[c].to_eid = ENDPOINT_ID>>]}

\* the plan with the contact from satellite 1 to satellite 2 that is drawn
LinkPlan(x) ==
    [ContactPlan EXCEPT ![LinkId] = Contact(1, 2, 2, LinkStart, x.end, x.rate, x.owlt)]

LinkBundle(b, x) ==
    [PinnedBundle(b, [created_at |-> 1, priority |-> x.priority, route |-> x.to.route])
     EXCEPT !.size = x.size, !.dst = x.to.dst]

\* the task of the bundle b, which satellite 1 has acquired
LinkTask(b, x) ==
    [uid |-> b, status |-> "acquired", by |-> 1, request_ids |-> <<b>>,
     target |-> 9, assignee |-> 1, pickup_time |-> 1, deadline_acquire |-> MaxSize,
     size |-> x.size, priority |-> x.priority, lifetime |-> 8,
     destination |-> x.to.dst, del_path |-> x.to.route]

ContactInit ==
    /\ \E x \in [end : LinkEnds, rate : LinkRates, owlt : LinkOwlts] :
       \E xs \in [1..LinkNum -> [size : LinkSizes, priority : {0, 2}, to : LinkRoutes]] :
       \E changed \in {<<>>, <<1>>} :
          LET Queued(st) ==
                  /\ \A c \in 1..Len(ContactPlan) : MinMav(st.mav[c]) >= 0
                  /\ node = [NewNodes EXCEPT ![1] = NodeOf(st)]
                  /\ bundles = st.bnd
                  /\ ledger = [n \in SimNodes |-> IF n = 1 THEN st.led ELSE <<>>]
          IN /\ Queued(AssignAll(
                    Buffered([QueueState(<<>>) EXCEPT
                                 !.cp = LinkPlan(x),
                                 !.mav[LinkId] = InitialMav(LinkPlan(x)[LinkId]),
                                 !.bnd = [b \in 1..LinkNum |-> LinkBundle(b, xs[b])]],
                             1),
                    LinkStart))
             /\ cfg = [msr |-> TRUE, resource_aware |-> TRUE,
                       request_duplication |-> FALSE, capacity |-> QueueCapacity,
                       requests |-> <<>>, cp |-> LinkPlan(x)]
             /\ task_table = [n \in SimNodes |->
                                 IF n = 1 THEN [b \in 1..LinkNum |-> LinkTask(b, xs[b])]
                                 ELSE <<>>]
             /\ task_table_updates =
                    [n \in SimNodes |->
                        [k \in QueueKeys(n) |-> IF n = 1 /\ k = 2 THEN changed ELSE <<>>]]
    /\ now = LinkStart
    /\ queue = <<Event(LinkStart, URGENT, "node_contact_procedure", 1,
                       [c |-> LinkId, started |-> FALSE])>>
    /\ crashed = FALSE
    /\ ev = NoEvent

ContactNext ==
    \/ NodeContact
    \/ TaskTableSend
    \/ TaskTableArrive
    \/ BundleSendStart
    \/ BundleArrive

SpecContact == ContactInit /\ [][ContactNext]_vars

\* ---------------------------------------------------------------------------
\* Claims on the timing of the contacts (under Spec and SpecContact)
\* ---------------------------------------------------------------------------
\* a contact from frm to n is open at time t
InContact(frm, n, t) ==
    \E c \in 1..Len(RunPlan) :
        /\ RunPlan[c].frm = frm
        /\ RunPlan[c].to = n
        /\ RunPlan[c].start <= t
        /\ t <= RunPlan[c].end

\* a message that frm sends during one of its contacts to n arrives at time t
SentInContact(frm, n, t) ==
    \E c \in 1..Len(RunPlan) :
        /\ RunPlan[c].frm = frm
        /\ RunPlan[c].to = n
        /\ RunPlan[c].start + RunPlan[c].owlt <= t
        /\ t < RunPlan[c].end + RunPlan[c].owlt

\* the position in the queue q, from i on, of the first process of node n that
\* sends the list of changed tasks to the neighbour x (task_table_send) or the
\* bundle x (bundle_send); 0 if there is none
RECURSIVE FirstEvent(_, _, _, _, _)
FirstEvent(q, i, n, k, x) ==
    IF i > Len(q) THEN 0
    ELSE IF /\ q[i].node = n
            /\ q[i].kind = k
            /\ IF k = "task_table_send" THEN q[i].arg.to = x ELSE q[i].arg.b = x
         THEN i
         ELSE FirstEvent(q, i + 1, n, k, x)

\* in the step, the node has sent no bundle to a neighbour while its list of
\* changed tasks for that neighbour was not empty: the list was empty before
\* the step, or the step has started the sending of the list ahead of the
\* sending of the bundle
UpdatesPrecedeBundles ==
    \A x \in Forwarded' :
        LET n == ev'.node
            to == RunPlan[x.c].to
            Ahead(u, b) == u # 0 /\ b # 0 /\ u < b
        IN \/ task_table_updates[n][to] = <<>>
           \/ Ahead(FirstEvent(queue', 1, n, "task_table_send", to),
                    FirstEvent(queue', 1, n, "bundle_send", x.b))

\* C21 as stated: a merge changes the task table of a node only while a contact
\* from the sender of the message to the node is open, and no bundle is sent
\* to a neighbour while the list of changed tasks for it is not empty
C21_UpdatesOnlyDuringContacts ==
    [][/\ (ev'.kind = "merge" /\ task_table'[ev'.node] # ev'.pre)
              => InContact(ev'.frm, ev'.node, now')
       /\ UpdatesPrecedeBundles]_vars

\* C21: a merge changes the task table of a node only by a message that its
\* sender has sent during one of its contacts to the node, which arrives the
\* owlt of the contact later; and no bundle is sent to a neighbour while the
\* list of changed tasks for it is not empty
C21_UpdatesSentDuringContacts ==
    [][/\ (ev'.kind = "merge" /\ task_table'[ev'.node] # ev'.pre)
              => SentInContact(ev'.frm, ev'.node, now')
       /\ UpdatesPrecedeBundles]_vars

\* a message of satellite 1 has changed the task table of satellite 2 after the
\* end of the contact during which it was sent
C21_Witness ==
    /\ ev.kind = "merge"
    /\ task_table[ev.node] # ev.pre
    /\ SentInContact(ev.frm, ev.node, now)
    /\ ~InContact(ev.frm, ev.node, now)

\* the process of kind k that node n has started for the bundle b stands in
\* the queue q for the time t
InQueue(q, k, n, b, t) ==
    \E i \in 1..Len(q) :
        q[i].kind = k /\ q[i].node = n /\ q[i].arg.b = b /\ q[i].time = t

\* the bundle b, which its previous node has sent at the time tx that
\* update_age has noted, reaches node n at time t over a contact that takes
\* size/rate + owlt
ArrivesOnTime(b, n, t) ==
    LET bundle == bundles'[b]
        tx == bundle.created_at + bundle.age
    IN \E c \in 1..Len(RunPlan) :
           /\ RunPlan[c].frm = bundle.previous_node
           /\ RunPlan[c].to = n
           /\ RunPlan[c].start <= tx
           /\ tx < RunPlan[c].end
           /\ (t - tx - RunPlan[c].owlt) * RunPlan[c].rate = bundle.size

\* C22: a bundle of size s that a node sends at time tx over a contact with
\* rate r and owlt w is given to bundle_receive of the receiver at tx + s/r + w
\* and not before: the sending starts _bundle_send at tx with the delay
\* s/r + w, _bundle_send notes tx in the age of the bundle and waits for the
\* delay, and bundle_receive runs when the wait is over
C22_ArrivalTime ==
    [][/\ \A x \in Forwarded' :
              /\ x.t = now'
              /\ \E i \in 1..Len(queue') :
                     /\ queue'[i].kind = "bundle_send"
                     /\ queue'[i].node = ev'.node
                     /\ queue'[i].time = x.t
                     /\ queue'[i].arg.b = x.b
                     /\ queue'[i].arg.to = RunPlan[x.c].to
                     /\ (queue'[i].arg.delay - RunPlan[x.c].owlt) * RunPlan[x.c].rate
                            = bundles[x.b].size
              /\ ~InQueue(queue', "bundle_arrive", ev'.node, x.b, now')
       /\ (ev'.kind = "bundle_send" /\ ~crashed') =>
              /\ bundles'[Head(queue).arg.b].created_at + bundles'[Head(queue).arg.b].age
                     = now'
              /\ InQueue(queue', "bundle_arrive", Head(queue).node, Head(queue).arg.b,
                         now' + Head(queue).arg.delay)
              /\ \A i \in 1..Len(queue') :
                     (queue'[i].kind = "bundle_arrive"
                      /\ queue'[i].arg.b = Head(queue).arg.b)
                         => queue'[i].time = now' + Head(queue).arg.delay
       /\ ev'.kind = "bundle_arrive" =>
              /\ now' = Head(queue).time
              /\ ev'.node = Head(queue).arg.to
              /\ ArrivesOnTime(Head(queue).arg.b, ev'.node, now')]_vars

\* satellite 2 has received a bundle of size 2 over a contact with rate 2 and
\* owlt 2, three units of time after it was sent
C22_Witness ==
    /\ ev.kind = "bundle_arrive"
    /\ RunPlan[LinkId].rate = 2
    /\ RunPlan[LinkId].owlt = 2
    /\ \E x \in LogEntries :
           /\ x.what = "receive"
           /\ bundles[x.b].size = 2
           /\ now = bundles[x.b].created_at + bundles[x.b].age + 3


\* ---------------------------------------------------------------------------
\* Specification of the scenario of testRouting.py: two satellites that are in
\* contact with the centre itself, which is the destination of both requests
\* ---------------------------------------------------------------------------
\* init_contact_plan
S4Plan ==
    << Contact(SCHEDULER_ID, 1, 1, 0, 2, 1, 0),
       Contact(SCHEDULER_ID, 2, 2, 2, 4, 1, 0),
       Contact(1, 2, 2, 13, 15, 1, 0),
       Contact(2, 1, 1, 13, 15, 1, 0),
       Contact(1, SCHEDULER_ID, SCHEDULER_ID, 20, 21, 1, 0),
       Contact(2, SCHEDULER_ID, SCHEDULER_ID, 25, 28, 1, 0) >>

\* init_contact_plan_targets
S4Targets ==
    << Contact(2, 20, 20, 5, 5, 1, 0),
       Contact(1, 10, 10, 10, 10, 1, 0) >>

\* the run of the scenario is followed until S4Until
S4Until == 30
\* the volumes of data of the requests of the scenario
S4Sizes == {1}

\* init_requests: the request for target_id that arrives at time at, whose
\* bundle is picked up at time pickup and has to be delivered by deadline
S4Request(at, target_id, size, pickup, deadline) ==
    [at |-> at, time_created |-> at, target_id |-> target_id, data_volume |-> size,
     priority |-> 0, deadline_acquire |-> MaxSize,
     bundle_lifetime |-> deadline - pickup, destination |-> SCHEDULER_ID]

S4Requests(size) ==
    << S4Request(0, 10, size, 10, 22), S4Request(2, 20, size, 5, 30) >>

\* a node whose contact plan is plan, with the contacts with the targets, and
\* whose route table holds the routes to dest that cgr_yens finds at time 0
PlanNode(n, plan, targets, dest) ==
    LET ids == [i \in 1..Len(plan) |-> i]
        all == plan \o targets
        Ids(sorted) == [i \in 1..Len(sorted) |-> sorted[i].id]
        Recs(own) == [i \in 1..Len(own) |->
                         [id |-> own[i], start |-> all[own[i]].start,
                          end |-> all[own[i]].end,
                          confidence |-> all[own[i]].confidence]]
        y == IF EidOf(n) = dest
             THEN [routes |-> <<>>, snh |-> [c \in 0..Len(plan) |-> <<>>]]
             ELSE CgrYens(plan, ids, n, dest, 0, RouteDiscoveryNum, <<>>,
                          [c \in 0..Len(plan) |-> <<>>])
    IN [NewNode(n) EXCEPT
           !.mav = [c \in 1..Len(plan) |-> InitialMav(plan[c])],
           !.contact_plan = ids,
           !.contact_plan_self =
               Ids(PySort("contact",
                          Recs(SeqFilterIn([i \in 1..Len(all) |-> i],
                                           {i \in 1..Len(all) : all[i].frm = n})))),
           !.route_table = (dest :> y.routes),
           !.snh = y.snh]

\* setUp: update_contact_plan and the route table of node n towards the centre
S4Node(n) == PlanNode(n, S4Plan, S4Targets, SCHEDULER_ID)

\* the state in which the test starts the run of the environment
S4Init ==
    \E msr \in BOOLEAN, capacity \in Capacities, size \in S4Sizes :
        /\ cfg = [msr |-> msr, resource_aware |-> TRUE, request_duplication |-> FALSE,
                  capacity |-> capacity, requests |-> S4Requests(size),
                  cp |-> S4Plan, cpt |-> S4Targets, until |-> S4Until]
        /\ now = 0
        /\ queue = <<Event(0, URGENT, "requests_generator", SCHEDULER_ID, [i |-> 0])>>
                   \o InitialProcesses(<<SCHEDULER_ID, 1, 2>>)
        /\ node = [n \in SimNodes |-> S4Node(n)]
        /\ task_table = [n \in SimNodes |-> <<>>]
        /\ task_table_updates = [n \in SimNodes |-> [k \in QueueKeys(n) |-> <<>>]]
        /\ bundles = <<>>
        /\ ledger = [n \in SimNodes |-> <<>>]
        /\ crashed = FALSE
        /\ ev = NoEvent

SpecS4 == S4Init /\ [][Next]_vars

\* ---------------------------------------------------------------------------
\* Claims on the scenario of testRouting.py (under SpecS4)
\* ---------------------------------------------------------------------------
\* the run has ended: no event is left before the end of the run
RunEnded == queue = <<>> \/ Head(queue).time > RunUntil

\* the bundle of the request for target has been delivered to the centre
S4Delivered(target) ==
    \E i \in 1..Len(node[SCHEDULER_ID].delivered_bundles) :
        bundles[node[SCHEDULER_ID].delivered_bundles[i]].target_id = target

\* the bundle of the request for target is in the drop list of a node
S4Dropped(target) ==
    \E n \in SimNodes : \E i \in 1..Len(node[n].drop_list) :
        bundles[node[n].drop_list[i]].target_id = target

C24_CgrDropsSecond ==
    ~cfg.msr =>
        /\ ~S4Delivered(20)
        /\ RunEnded => S4Dropped(20)

\* the run with MSR off has ended: the bundle of R1 was delivered, the one of R2
\* was dropped by the satellite that received it
C24_Witness ==
    /\ ~cfg.msr
    /\ RunEnded
    /\ S4Delivered(10)
    /\ S4Dropped(20)
    /\ ~S4Delivered(20)

\* ---------------------------------------------------------------------------
\* The order of the bundles on its own: two bundles are constructed and
\* compared with Bundle.__lt__, both ways, and sorted
\* ---------------------------------------------------------------------------
\* the bundles hold an age and a creation time up to OrderTimeMax and have
\* made up to OrderHopMax hops
OrderTimeMax == 1
OrderHopMax == 1

\* Bundle(src, dst, target_id, size, deadline, created_at, priority, critical)
\* after age and hop_count have been updated
OrderBundle(b, x) ==
    [id |-> b, src |-> 1, dst |-> ENDPOINT_ID, target_id |-> 9,
     created_at |-> x.created_at, size |-> 1, deadline |-> MaxSize,
     priority |-> x.priority, critical |-> x.critical, fragment |-> TRUE,
     task_id |-> b, obey_route |-> FALSE, previous_node |-> None,
     hop_count |-> x.hop_count, route |-> <<>>, age |-> x.age, current |-> 1,
     dropped_at |-> None, delivered_at |-> None, preempted |-> FALSE]

OrderInit ==
    /\ \E xs \in [1..2 -> [created_at : 0..OrderTimeMax, age : 0..OrderTimeMax,
                           priority : Priorities, critical : BOOLEAN,
                           hop_count : 0..OrderHopMax]] :
          bundles = [b \in 1..2 |-> OrderBundle(b, xs[b])]
    /\ cfg = [msr |-> TRUE, resource_aware |-> TRUE, request_duplication |-> FALSE,
              capacity |-> MaxSize, requests |-> <<>>]
    /\ now = 0
    /\ queue = <<>>
    /\ node = NewNodes
    /\ task_table = [n \in SimNodes |-> <<>>]
    /\ task_table_updates = [n \in SimNodes |-> [k \in QueueKeys(n) |-> <<>>]]
    /\ ledger = [n \in SimNodes |-> <<>>]
    /\ crashed = FALSE
    /\ ev = NoEvent

\* bundles[1] < bundles[2], bundles[2] < bundles[1] and sorted(bundles)
BundleCompare ==
    /\ ev.kind = "none"
    /\ ev' = [kind |-> "bundle_lt", lt |-> BundleLt(bundles[1], bundles[2]),
              gt |-> BundleLt(bundles[2], bundles[1]),
              sorted |-> SortBundles(bundles, <<1, 2>>)]
    /\ UNCHANGED <<task_table, task_table_updates, cfg, now, queue, node, bundles,
                   ledger, crashed>>

OrderNext == BundleCompare

SpecBundleOrder == OrderInit /\ [][OrderNext]_vars

\* ---------------------------------------------------------------------------
\* Claims on the order of the bundles (under SpecBundleOrder)
\* ---------------------------------------------------------------------------
\* C25: bundles are ranked critical first, then by higher priority, then by
\* older created_at, then by fewer hops; a critical bundle ranks before every
\* bundle that is not critical whatever the priorities, and no two bundles rank
\* before each other
C25_BundleOrder ==
    ev.kind = "bundle_lt" =>
        LET a == bundles[1]
            b == bundles[2]
        IN /\ ~(ev.lt /\ ev.gt)
           /\ (a.critical /\ ~b.critical) => ev.lt
           /\ (a.critical = b.critical /\ a.priority > b.priority) => ev.lt
           /\ (/\ a.critical = b.critical /\ a.priority = b.priority
               /\ a.created_at < b.created_at) => ev.lt
           /\ (/\ a.critical = b.critical /\ a.priority = b.priority
               /\ a.created_at = b.created_at /\ a.hop_count < b.hop_count) => ev.lt

\* ---------------------------------------------------------------------------
\* Claims on the assignment and its reconciliation (under SpecAssignment)
\* ---------------------------------------------------------------------------
\* C26: a call of _bundle_assignment, with the calls that it makes to itself
\* after _contact_over_booking, ends without an error, and when it has ended no
\* contact of the node is over-booked
C26_ReconciliationEnds ==
    ev.kind = "bundle_assignment" =>
        /\ ev.err = ""
        /\ \A c \in SeqSet(node[ev.node].contact_plan) :
              MinMav(node[ev.node].mav[c]) >= 0

\* ---------------------------------------------------------------------------
\* Claims on the acquisition and on the sending in a contact (under Spec and
\* SpecContact)
\* ---------------------------------------------------------------------------
\* the bundles that the handler that ran last acquired
Acquired == {x \in LogEntries : x.what = "acquire"}

\* what _target_contact_procedure tests before it acquires the bundle of task
\* on node n at time t: the task is as the node held it when the contact began
AcquisitionAllowed(n, task, t) ==
    /\ task.status = "pending"
    /\ ~Truthy(task.assignee) \/ task.assignee = n
    /\ \E y \in LogEntries' : y.what = "target_contact" /\ y.target = task.target
    /\ task.pickup_time <= t

\* the bundle b that node n acquired at time t for task: its fields, its place
\* in the buffer, which it fits, and the mark on the task
AcquisitionMade(n, task, b, t) ==
    /\ bundles'[b].size = task.size
    /\ bundles'[b].deadline = t + task.lifetime
    /\ bundles'[b].route = IF cfg.msr THEN task.del_path ELSE <<>>
    /\ SeqContains(node'[n].buffer, b)
    /\ BundleSizes(bundles', node'[n].buffer) <= cfg.capacity
    /\ TableGet(task_table'[n], task.uid).status = "acquired"

\* C27: a bundle is acquired in a target contact only for a task that is
\* pending (it has not been marked as failed), whose assignee is the node or
\* none, whose target is the receiver of the contact and whose pickup_time is
\* not later than now, and only if the buffer has room; the bundle has the size
\* of the task, the deadline now + lifetime and the route del_path under MSR
\* (else none), and the task is marked as acquired
C27_AcquisitionPreconditions ==
    [][\A x \in Acquired' :
          /\ TableHas(task_table[ev'.node], x.task)
          /\ AcquisitionAllowed(ev'.node, TableGet(task_table[ev'.node], x.task), ev'.t)
          /\ ~\E y \in LogEntries' : y.what = "task_failed" /\ y.task = x.task
          /\ AcquisitionMade(ev'.node, TableGet(task_table[ev'.node], x.task), x.b,
                             ev'.t)]_vars

\* the bundles that the handler that ran last took off the outbound queue and
\* returned to the buffer because the contact had too little time left
ReturnedForTime == {x \in LogEntries : x.what = "return" /\ x.why = "time"}

EndUntil == 12

\* the plan of main.py with two contacts from satellite 1 to the gateway, one
\* after the other
EndPlan ==
    << Contact(3, SCHEDULER_ID, SCHEDULER_ID, 0, EndUntil, MaxSize, 0),
       Contact(SCHEDULER_ID, 3, ENDPOINT_ID, 0, EndUntil, MaxSize, 0),
       Contact(3, 1, 1, 0, 5, 1, 0),
       Contact(1, 3, ENDPOINT_ID, 5, 7, 1, 0),
       Contact(1, 3, ENDPOINT_ID, 8, 12, 1, 0) >>

\* the target is met before the contacts and when the first of them ends
EndTargets ==
    << Contact(1, 9, 9, 3, 4, 1, 0),
       Contact(1, 9, 9, 7, 8, 1, 0) >>

EndCapacities == {3, 6}

EndInit ==
    \E msr \in BOOLEAN, capacity \in EndCapacities, requests \in RequestSequences :
        /\ cfg = [msr |-> msr, resource_aware |-> TRUE, request_duplication |-> FALSE,
                  capacity |-> capacity, requests |-> requests,
                  cp |-> EndPlan, cpt |-> EndTargets, until |-> EndUntil]
        /\ now = 0
        /\ queue = <<Event(0, URGENT, "requests_generator", SCHEDULER_ID, [i |-> 0])>>
                   \o InitialProcesses(<<SCHEDULER_ID, 1, 2, 3>>)
        /\ node = [n \in SimNodes |-> PlanNode(n, EndPlan, EndTargets, ENDPOINT_ID)]
        /\ task_table = [n \in SimNodes |-> <<>>]
        /\ task_table_updates = [n \in SimNodes |-> [k \in QueueKeys(n) |-> <<>>]]
        /\ bundles = <<>>
        /\ ledger = [n \in SimNodes |-> <<>>]
        /\ crashed = FALSE
        /\ ev = NoEvent

SpecContactEnd == EndInit /\ [][Next]_vars

\* the contacts that ended in the handler that ran last
ContactsEnded == {x \in LogEntries : x.what = "contact_end"}

\* what the bundles of the queue q refund on contact k at the level p of mav
RECURSIVE QueueRefund(_, _, _)
QueueRefund(q, k, p) ==
    IF q = <<>> THEN 0
    ELSE (IF SeqContains(bundles[Head(q)].route, k) /\ p <= bundles[Head(q)].priority + 1
          THEN bundles[Head(q)].size ELSE 0)
         + QueueRefund(Tail(q), k, p)

\* the outbound queue towards the neighbour is empty after the step
QueueEmptied(n, to) == node'[n].outbound_queue[to] = <<>>

\* the bundles that were in the outbound queue towards the neighbour are in
\* the buffer after the step
QueueInBuffer(n, to) ==
    \A b \in SeqSet(node[n].outbound_queue[to]) :
        /\ SeqContains(node'[n].buffer, b)
        /\ ~SeqContains(node'[n].outbound_queue_all, b)

\* every contact has got back, on the levels 0..priority, the size of each
\* bundle of the queue whose route holds it
QueueRefunded(n, to) ==
    \A k \in 1..Len(node[n].mav) : \A p \in 1..3 :
        node'[n].mav[k][p] = node[n].mav[k][p]
                                 + QueueRefund(node[n].outbound_queue[to], k, p)

\* C29: when a contact of a node ends, the outbound queue towards the
\* neighbour is empty, every bundle that was in it is in the buffer of the
\* node, and the reservation of each such bundle is refunded on every hop of
\* its route (mav[0..priority] is increased by its size)
C29_ContactEnd ==
    [][\A x \in ContactsEnded' :
          /\ QueueEmptied(ev'.node, RunPlan[x.c].to)
          /\ QueueInBuffer(ev'.node, RunPlan[x.c].to)
          /\ QueueRefunded(ev'.node, RunPlan[x.c].to)]_vars

\* ---------------------------------------------------------------------------
\* Claims on the routes of the tasks (under SpecS4 and Spec)
\* ---------------------------------------------------------------------------
\* the tasks that the handler that ran last added to the table of the centre
TasksAdded == {x \in LogEntries : x.what = "task_add"}

\* the hop c of a route that cgr_dijkstra returned for the size, the priority
\* and the deadline of task has the volume for it, on the plan that the centre
\* held when it searched, and does not start beyond the deadline
HopScreened(task, c) ==
    /\ node[SCHEDULER_ID].mav[c][task.priority + 1] >= task.size
    /\ RunPlan[c].start <= task.pickup_time + task.lifetime

YenMax == 3

\* cgr_yens(src, dest, contact_plan, t_now, k) on an empty list of routes,
\* next to the route that cgr_dijkstra finds from the root contact and to what
\* cgr_yens adds when it is called again with the routes that it returned
YensSearch ==
    /\ ev.kind = "none"
    /\ \E k \in 1..YenMax :
          LET Searched(y) ==
                  ev' = [kind |-> "yens_k", k |-> k, found |-> y,
                         first |-> CgrDijkstra(
                                       [cp |-> cfg.plan, cpl |-> RoutePlanIds, rid |-> 0,
                                        rrec |-> RootContact(cfg.src, cfg.t_now),
                                        snh |-> [c \in 0..PlanLen |-> <<>>], sup |-> {},
                                        dest |-> cfg.dest, deadline |-> MaxSize,
                                        size |-> 0], cfg.t_now, <<>>),
                         more |-> IF y.err \/ y.routes = <<>> THEN y
                                  ELSE CgrYens(cfg.plan, RoutePlanIds, cfg.src, cfg.dest,
                                               cfg.t_now, 2, y.routes, y.snh)]
          IN Searched(CgrYens(cfg.plan, RoutePlanIds, cfg.src, cfg.dest, cfg.t_now,
                              k, <<>>, [c \in 0..PlanLen |-> <<>>]))
    /\ UNCHANGED <<task_table, task_table_updates, simVars>>

\* the times at which the node reviews its route table
EvalTimes == {2, 5}

\* Node.route_table_eval(t) on a node whose route table holds the routes that
\* cgr_yens has found for the endpoint
RouteTableReview ==
    /\ ev.kind = "yens_k"
    /\ ~ev.found.err
    /\ \E t \in EvalTimes :
          /\ t >= cfg.t_now
          /\ ev' = [kind |-> "route_table_eval", t |-> t,
                    st |-> RouteTableEval([route_table |-> (cfg.dest :> ev.found.routes),
                                           cp |-> cfg.plan,
                                           contact_plan |-> RoutePlanIds], t)]
    /\ UNCHANGED <<task_table, task_table_updates, simVars>>

YensNext == YensSearch \/ RouteTableReview

SpecYens == RouteInit /\ [][YensNext]_vars

\* ---------------------------------------------------------------------------
\* Claims on the discovery of the routes (under SpecYens)
\* ---------------------------------------------------------------------------
\* the loop-free contact sequences that leave node n at time arr, having
\* visited the nodes of the set visited, and end at a node of the endpoint
\* cfg.dest; a contact can follow when it leaves n, ends after arr and leads to
\* a node not yet visited
RECURSIVE LoopFreeRoutes(_, _, _)
LoopFreeRoutes(n, arr, visited) ==
    LET usable == {c \in 1..PlanLen : /\ cfg.plan[c].frm = n
                                      /\ cfg.plan[c].to \notin visited
                                      /\ cfg.plan[c].end > arr}
        Arrival(c) == Max(cfg.plan[c].start, arr) + cfg.plan[c].owlt
        Via(c) == IF cfg.plan[c].to_eid = cfg.dest THEN {<<c>>}
                  ELSE {<<c>> \o t : t \in LoopFreeRoutes(cfg.plan[c].to, Arrival(c),
                                                          visited \cup {cfg.plan[c].to})}
    IN UNION {Via(c) : c \in usable}

YensFound == {ev.found.routes[i] : i \in 1..Len(ev.found.routes)}

\* C31: cgr_yens with num_routes = K on an empty list returns at most K routes,
\* the first of which is the route of cgr_dijkstra; the routes differ pairwise
\* in their hops, none holds the root contact, and fewer than K are returned
\* only when the search for a further route finds none: calling cgr_yens again
\* adds no route, and, a first route given, every loop-free contact sequence
\* from the source to the endpoint is among the routes returned
C31_YensRoutes ==
    ev.kind = "yens_k" =>
        /\ ~ev.found.err
        /\ Len(ev.found.routes) <= ev.k
        /\ IF ev.first.found
           THEN ev.found.routes # <<>> /\ ev.found.routes[1] = ev.first.hops
           ELSE ev.found.routes = <<>>
        /\ \A i, j \in 1..Len(ev.found.routes) :
              i # j => ev.found.routes[i] # ev.found.routes[j]
        /\ \A i \in 1..Len(ev.found.routes) :
              /\ ev.found.routes[i] # <<>>
              /\ \A h \in 1..Len(ev.found.routes[i]) :
                    ev.found.routes[i][h] \in 1..PlanLen
        /\ Len(ev.found.routes) < ev.k => ev.more.routes = ev.found.routes
        /\ YensFound \subseteq LoopFreeRoutes(cfg.src, cfg.t_now, {cfg.src})
        /\ (ev.first.found /\ Len(ev.found.routes) < ev.k) =>
               LoopFreeRoutes(cfg.src, cfg.t_now, {cfg.src}) \subseteq YensFound

\* cgr_yens was asked for three routes and returned two, cgr_dijkstra found the
\* first, and a further search adds none
C31_Witness ==
    /\ ev.kind = "yens_k"
    /\ ev.k = 3
    /\ Len(ev.found.routes) = 2
    /\ ev.first.found
    /\ ev.found.routes[1] = ev.first.hops
    /\ ev.more.routes = ev.found.routes

\* ---------------------------------------------------------------------------
\* The candidate filter on its own (candidate_routes on routes that the caller
\* hands in)
\* ---------------------------------------------------------------------------
\* node 1 reaches node 4 of the endpoint over node 2 or directly; contact 3
\* leads from node 2 back to node 1
FilterPlan ==
    <<Contact(1, 2, 2, 0, 4, 1, 0), Contact(2, 4, RouteEndpoint, 2, 6, 1, 0),
      Contact(2, 1, 1, 0, 4, 1, 0), Contact(1, 4, RouteEndpoint, 3, 8, 1, 0)>>

FilterPlanIds == [i \in 1..Len(FilterPlan) |-> i]

\* the routes handed in, each a chain of contacts from node 1 to the endpoint
FilterRoutes == {<<1, 2>>, <<4>>, <<1, 3, 4>>}

FilterRouteLists ==
    {<<r>> : r \in FilterRoutes}
        \cup {<<r[1], r[2]>> : r \in {p \in FilterRoutes \X FilterRoutes : p[1] # p[2]}}

\* the volume that bundles of priority 1 have booked on a contact
FilterBooked == {0, 2, 4}
FilterSizes == {1, 3}
FilterTimes == {0, 3}

\* mav of the contacts after the bookings
FilterMav(booked) ==
    ContactResourceUpdate(
        ContactResourceUpdate([c \in 1..Len(FilterPlan) |-> InitialMav(FilterPlan[c])],
                              <<1>>, booked[1], 1),
        <<4>>, booked[2], 1)

FilterInit ==
    /\ \E routes \in FilterRouteLists, booked \in [1..2 -> FilterBooked],
          size \in FilterSizes, priority \in Priorities, fragment \in BOOLEAN,
          curr_time \in FilterTimes, queued \in BOOLEAN :
          cfg = [plan |-> FilterPlan, src |-> RouteSource, dest |-> RouteEndpoint,
                 t_now |-> curr_time, routes |-> routes, mav |-> FilterMav(booked),
                 bundle |-> [size |-> size, priority |-> priority,
                             fragment |-> fragment, deadline |-> MaxSize],
                 bnd |-> <<[size |-> 2, priority |-> 1]>>,
                 obq |-> [n \in Nodes \cup {4} |->
                             IF queued /\ n = 2 THEN <<1>> ELSE <<>>]]
    /\ ev = NoEvent
    /\ task_table = [n \in Nodes |-> <<>>]
    /\ task_table_updates = [n \in Nodes |-> [k \in Neighbours(n) |-> <<>>]]
    /\ now = 0
    /\ queue = <<>>
    /\ node = [n \in Nodes |-> [buffer |-> <<>>]]
    /\ bundles = <<>>
    /\ ledger = [n \in Nodes |-> <<>>]
    /\ crashed = FALSE

\* candidate_routes(curr_time, curr_node, contact_plan, bundle, routes, [], obq)
FilterCall ==
    /\ ev.kind = "none"
    /\ ev' = [kind |-> "candidates",
              found |-> CandidateRoutes(cfg.plan, FilterPlanIds, cfg.mav, cfg.bnd,
                                        cfg.obq, cfg.t_now, cfg.bundle, cfg.routes)]
    /\ UNCHANGED <<task_table, task_table_updates, simVars>>

FilterNext == FilterCall

SpecFilter == FilterInit /\ [][FilterNext]_vars

FilterEto(hops) ==
    LET first == cfg.plan[hops[1]]
    IN Max(cfg.t_now, first.start)
       + (Max(0, ApplicableBacklog(cfg.bnd, cfg.obq[first.to], cfg.bundle.priority)
                 - ApplicableBacklogRelief(cfg.plan, FilterPlanIds, first, cfg.t_now))
          \div first.rate)

\* the least effective volume limit of the hops of the route: what a hop can
\* carry from its first byte until it or a later hop ends, and no more than
\* its mav for the priority of the bundle
FilterVolumeLimit(hops) ==
    LET h == [i \in 1..Len(hops) |-> cfg.plan[hops[i]]]
        fbt == ProjectedTxTimes(h, 1, cfg.bundle.size, FilterEto(hops), 0)
        Stop(i) == CHOOSE e \in {h[j].end : j \in i..Len(h)} :
                       \A j \in i..Len(h) : e <= h[j].end
        Limit(i) == Min((Stop(i) - fbt[i]) * h[i].rate,
                        cfg.mav[hops[i]][cfg.bundle.priority + 1])
    IN CHOOSE v \in {Limit(i) : i \in 1..Len(h)} : \A i \in 1..Len(h) : v <= Limit(i)

C34_NoEndedContact ==
    ev.kind = "route_table_eval" =>
        \A dest \in DOMAIN ev.st.route_table :
            \A i \in 1..Len(ev.st.route_table[dest]) :
                \A h \in 1..Len(ev.st.route_table[dest][i]) :
                    cfg.plan[ev.st.route_table[dest][i][h]].end > ev.t

\* ---------------------------------------------------------------------------
\* The scheduling of one request on its own (Scheduler.schedule_task on plans
\* in which both satellites can meet the target and the gateway)
\* ---------------------------------------------------------------------------
\* the windows <<start, end>> of the contacts of satellite 1 and of satellite 2
\* with the target, and of their contacts with the gateway
CgsTargetWindows1 == {<<>>, <<<<1, 2>>>>, <<<<6, 7>>>>, <<<<1, 2>>, <<6, 7>>>>}
CgsTargetWindows2 == {<<>>, <<<<3, 4>>>>, <<<<5, 6>>>>}
CgsGatewayWindows == {<<>>, <<<<2, 4>>>>, <<<<8, 10>>>>, <<<<5, 9>>>>}
CgsCrossLinks == {<<>>, <<<<2, 7>>>>}

CgsContacts(frm, to, to_eid, windows) ==
    [i \in 1..Len(windows) |-> Contact(frm, to, to_eid, windows[i][1], windows[i][2], 1, 0)]

\* the centre and the gateway are in permanent contact, the gateway reaches
\* both satellites from the start
CgsPlan(g1, g2, x) ==
    << Contact(3, SCHEDULER_ID, SCHEDULER_ID, 0, MaxTime, MaxSize, 0),
       Contact(SCHEDULER_ID, 3, ENDPOINT_ID, 0, MaxTime, MaxSize, 0),
       Contact(3, 1, 1, 0, 5, 1, 0),
       Contact(3, 2, 2, 0, 5, 1, 0) >>
    \o CgsContacts(1, 3, ENDPOINT_ID, g1) \o CgsContacts(2, 3, ENDPOINT_ID, g2)
    \o CgsContacts(1, 2, 2, x)

CgsRequests ==
    {[at |-> at, time_created |-> at, target_id |-> 9, data_volume |-> size,
      priority |-> 0, deadline_acquire |-> deadline, bundle_lifetime |-> lifetime,
      destination |-> ENDPOINT_ID] :
        at \in {0, 2}, size \in {1, 3}, deadline \in {4, MaxSize}, lifetime \in {3, 4, 8}}

CgsInit ==
    /\ \E t1 \in CgsTargetWindows1, t2 \in CgsTargetWindows2,
          g1 \in CgsGatewayWindows, g2 \in CgsGatewayWindows, x \in CgsCrossLinks,
          request \in CgsRequests :
          cfg = [cp |-> CgsPlan(g1, g2, x),
                 cpt |-> CgsContacts(1, 9, 9, t1) \o CgsContacts(2, 9, 9, t2),
                 until |-> MaxTime, resource_aware |-> TRUE, request |-> request]
    /\ ev = NoEvent
    /\ task_table = [n \in Nodes |-> <<>>]
    /\ task_table_updates = [n \in Nodes |-> [k \in Neighbours(n) |-> <<>>]]
    /\ now = 0
    /\ queue = <<>>
    /\ node = [n \in Nodes |-> [buffer |-> <<>>]]
    /\ bundles = <<>>
    /\ ledger = [n \in Nodes |-> <<>>]
    /\ crashed = FALSE

\* schedule_task(request, now, contact_plan, contact_plan_targets) on the centre
CgsSchedule ==
    /\ ev.kind = "none"
    /\ ev' = [kind |-> "schedule",
              s |-> ScheduleTask([uid |-> SCHEDULER_ID,
                                  mav |-> [c \in 1..Len(RunPlan) |-> InitialMav(RunPlan[c])]],
                                 cfg.request, 1, cfg.request.at)]
    /\ UNCHANGED <<task_table, task_table_updates, simVars>>

CgsNext == CgsSchedule

SpecCgs == CgsInit /\ [][CgsNext]_vars

\* ---------------------------------------------------------------------------
\* Claims on the scheduling of a request (under SpecCgs)
\* ---------------------------------------------------------------------------
\* the earliest time at which a bundle of the request that leaves node n at
\* time arr reaches a node of the destination, over the loop-free sequences of
\* contacts of the plan that start before deadline, end after the arrival and
\* the transfer, and hold the volume; MaxSize when there is none
RECURSIVE CgsArrival(_, _, _, _, _, _)
CgsArrival(plan, n, arr, visited, dest, lim) ==
    LET usable == {c \in 1..Len(plan) : /\ plan[c].frm = n
                                        /\ plan[c].to \notin visited
                                        /\ plan[c].start < lim.deadline
                                        /\ plan[c].end > arr + (lim.size \div plan[c].rate)
                                        /\ ContactVolume(plan[c]) >= lim.size}
        Arrival(c) == Max(plan[c].start, arr) + plan[c].owlt
        Via(c) == IF plan[c].to_eid = dest THEN Arrival(c)
                  ELSE CgsArrival(plan, plan[c].to, Arrival(c),
                                  visited \cup {plan[c].to}, dest, lim)
        times == {Via(c) : c \in usable} \cup {MaxSize}
    IN CHOOSE t \in times : \A u \in times : t <= u

\* the nodes that have a contact with the target of the request
CgsAcquirers == {RunTargets[c].frm : c \in {d \in 1..Len(RunTargets) :
                                                RunTargets[d].to = cfg.request.target_id}}

\* the earliest time at which node a, reached from the centre after the request
\* has arrived, picks the data up at the target before deadline_acquire
CgsPickup(a) ==
    LET reach == IF a = SCHEDULER_ID THEN cfg.request.at
                 ELSE CgsArrival(RunPlan, SCHEDULER_ID, cfg.request.at, {SCHEDULER_ID}, a,
                                 [deadline |-> cfg.request.deadline_acquire, size |-> 0])
        times == {Max(RunTargets[c].start, reach) + RunTargets[c].owlt :
                     c \in {d \in 1..Len(RunTargets) :
                               /\ RunTargets[d].frm = a
                               /\ RunTargets[d].to = cfg.request.target_id
                               /\ RunTargets[d].start < cfg.request.deadline_acquire
                               /\ RunTargets[d].end > reach}} \cup {MaxSize}
    IN IF reach = MaxSize THEN MaxSize ELSE CHOOSE t \in times : \A u \in times : t <= u

\* the earliest delivery by node a of the data that it picks up at CgsPickup(a)
CgsDelivery(a) ==
    IF CgsPickup(a) = MaxSize THEN MaxSize
    ELSE CgsArrival(RunPlan, a, CgsPickup(a), {a}, cfg.request.destination,
                    [deadline |-> CgsPickup(a) + cfg.request.bundle_lifetime,
                     size |-> cfg.request.data_volume])

\* the times at which node a can deliver the data when it picks it up in any
\* one of its contacts with the target before deadline_acquire
CgsDeliveries(a) ==
    LET reach == IF a = SCHEDULER_ID THEN cfg.request.at
                 ELSE CgsArrival(RunPlan, SCHEDULER_ID, cfg.request.at, {SCHEDULER_ID}, a,
                                 [deadline |-> cfg.request.deadline_acquire, size |-> 0])
        Pickup(c) == Max(RunTargets[c].start, reach) + RunTargets[c].owlt
    IN {CgsArrival(RunPlan, a, Pickup(c), {a}, cfg.request.destination,
                   [deadline |-> Pickup(c) + cfg.request.bundle_lifetime,
                    size |-> cfg.request.data_volume]) :
           c \in {d \in 1..Len(RunTargets) :
                     /\ reach < MaxSize
                     /\ RunTargets[d].frm = a
                     /\ RunTargets[d].to = cfg.request.target_id
                     /\ RunTargets[d].start < cfg.request.deadline_acquire
                     /\ RunTargets[d].end > reach}}

\* the acquisition path that the search finds once node a has been examined
CgsNextAcquisition(a) ==
    AcquisitionPath(cfg.request, cfg.request.at,
                    {c \in 1..Len(RunAll) : /\ RunAll[c].frm = a
                                            /\ RunAll[c].to = cfg.request.target_id})

MarkedFailed == {x.task : x \in {y \in LogEntries : y.what = "task_failed"}}

\* C36: on every node the status of a task never moves to a lower rank of the
\* task ordering, whatever the handler that runs (target contact, delivery,
\* merge), and a task that a handler has marked as failed is not left by it
\* as acquired or pending
C36_StatusMonotone ==
    [][\A n \in DOMAIN task_table :
          \A i \in 1..Len(task_table[n]) :
              TableHas(task_table'[n], task_table[n][i].uid) =>
                  /\ ~TaskLt(TableGet(task_table'[n], task_table[n][i].uid),
                             task_table[n][i])
                  /\ (task_table[n][i].uid \in MarkedFailed' /\ ev'.node = n) =>
                         TableGet(task_table'[n], task_table[n][i].uid).status
                             \in {"failed", "delivered"}]_vars


\* how often x is in the sequence s
RECURSIVE Occurrences(_, _)
Occurrences(s, x) ==
    IF s = <<>> THEN 0 ELSE (IF Head(s) = x THEN 1 ELSE 0) + Occurrences(Tail(s), x)

RECURSIVE SumOver(_, _)
SumOver(F(_), S) ==
    IF S = {} THEN 0 ELSE LET x == CHOOSE y \in S : TRUE IN F(x) + SumOver(F, S \ {x})

\* how often bundle b is in an outbound queue of node n
InOutboundQueues(n, b) ==
    LET In(to) == Occurrences(node[n].outbound_queue[to], b)
    IN SumOver(In, DOMAIN node[n].outbound_queue)

\* how often bundle b is on its way between two nodes: popped for a
\* _bundle_send that has not yet handed it to the receiver
InFlight(b) ==
    Occurrences([i \in 1..Len(queue) |->
                    IF queue[i].kind \in {"bundle_send", "bundle_arrive"}
                    THEN queue[i].arg.b ELSE 0], b)

\* the number of places in which bundle b is
BundlePlaces(b) ==
    LET At(n) == Occurrences(node[n].buffer, b) + InOutboundQueues(n, b)
                 + Occurrences(node[n].delivered_bundles, b)
                 + Occurrences(node[n].drop_list, b)
    IN SumOver(At, DOMAIN node) + InFlight(b)

\* C37: every bundle is in at most one of a buffer, an outbound queue, a
\* transmission, a delivered list and a drop list, and outbound_queue_all of a
\* node holds the bundles of its outbound queues, each as often as they do
C37_OnePlace ==
    /\ \A b \in 1..Len(bundles) : BundlePlaces(b) <= 1
    /\ \A n \in DOMAIN node :
          \A b \in 1..Len(bundles) :
              Occurrences(node[n].outbound_queue_all, b) = InOutboundQueues(n, b)

\* a bundle is in flight while another one waits in an outbound queue of the
\* node that sent it
C37_Witness ==
    \E b, c \in 1..Len(bundles) :
        /\ b # c
        /\ InFlight(b) = 1
        /\ \E n \in DOMAIN node : InOutboundQueues(n, c) = 1


\* C38: no node acquires two bundles for one task, and the bundles of a task
\* that has an assignee are acquired by the assignee
C38_AcquiredOnce ==
    \A b \in 1..Len(bundles) :
        /\ \A c \in 1..Len(bundles) :
              (b # c /\ bundles[b].task_id = bundles[c].task_id) =>
                  bundles[b].src # bundles[c].src
        /\ \A n \in DOMAIN task_table :
              (/\ TableHas(task_table[n], bundles[b].task_id)
               /\ Truthy(TableGet(task_table[n], bundles[b].task_id).assignee)) =>
                  bundles[b].src = TableGet(task_table[n], bundles[b].task_id).assignee

\* a satellite meets the target of a pending task of its table that is due
\* and that is assigned to the other satellite, and acquires nothing for it
C38_Witness ==
    \E x \in LogEntries :
        /\ x.what = "target_contact"
        /\ \E i \in 1..Len(task_table[ev.node]) :
              /\ task_table[ev.node][i].status = "pending"
              /\ task_table[ev.node][i].target = x.target
              /\ task_table[ev.node][i].pickup_time <= ev.t
              /\ task_table[ev.node][i].deadline_acquire >= ev.t
              /\ Truthy(task_table[ev.node][i].assignee)
              /\ task_table[ev.node][i].assignee # ev.node
              /\ ~\E y \in Acquired : y.task = task_table[ev.node][i].uid


\* ---------------------------------------------------------------------------
\* Claim on the completeness of the route search (under SpecRoute)
\* ---------------------------------------------------------------------------
\* a contact of the plan leads from the source straight to a node of the
\* endpoint and ends after the start time of the search
DirectContact ==
    \E c \in 1..PlanLen : /\ cfg.plan[c].frm = cfg.src
                          /\ cfg.plan[c].to_eid = cfg.dest
                          /\ cfg.plan[c].end > cfg.t_now

\* C39: whenever a contact leads from the source straight to the endpoint, or
\* a loop-free sequence of contacts reaches it, cgr_dijkstra returns a route
\* and cgr_yens at least one, also when no contact leads to the source
C39_SearchComplete ==
    (DirectContact \/ EarliestArrival(cfg.src, cfg.t_now, {cfg.src}) < MaxSize) =>
        /\ ev.kind = "dijkstra" => ev.route.found
        /\ ev.kind = "yens" => ev.found.routes # <<>>

====
